---------------------------- MODULE Spec2Model ----------------------------
(***************************************************************************)
(* The per-paper pipeline of arxiv_digest (src/src/pipeline.py) over its   *)
(* SQLite status store (src/arxiv_digest/db.py).                           *)
(*                                                                         *)
(* The store is the set of rows of table papers.  The sequencer is one     *)
(* process whose position in run_pipeline is pc; every collaborator call   *)
(* and every store write is one step, and the process may be killed        *)
(* between any two steps.                                                  *)
(***************************************************************************)
EXTENDS Integers, Sequences, FiniteSets, TLC

(***************************************************************************)
(* Bounds of the model.                                                    *)
(***************************************************************************)
\* the wall clock _utc_now reads takes the values 0 .. MaxClock
MaxClock == 1
\* the number of papers the fetchers return, over all runs
MaxFetched == 2
\* a model reply holds at most MaxTopics topic entries
MaxTopics == 1
\* relevance values a model reply carries, in units of 1/RelOne
MaxRel == 1
\* the distinct summaries the model returns for Stage 2
NumSummaries == 1
\* successful emails per paper are counted up to MaxCount
MaxCount == 2
\* direct calls of the store's API in a store scenario
MaxOps == 3
\* direct calls of the store's API in a scenario that also has runs
MaxMixedOps == 1
\* the number of papers the fetchers return in such a scenario
MaxMixedFetched == 1

\* papers listed by the three sources together in a run whose fetch is recorded
MaxListed == 3

\* papers one run fetches where two instances run at the same time
MaxRaceQueue == 1

\* tokens in a model output
MaxRawLen == 6

\* topic entries of a loaded Stage-1 object
MaxParsedTopics == 2

\* the largest max_retries given to chat_completion
MaxRetries == 4

(***************************************************************************)
(* Values.                                                                 *)
(***************************************************************************)
\* paper ids the fetchers return
Ids == {"2401.00001", "2401.00002"}

\* SQL NULL / Python None for an optional column or argument; a present
\* value v is <<v>>
None == << >>
Some(v) == << v >>

\* get_status's None (no row)
NoStatus == "None"

\* db.NEW (NEW is a reserved word of TLA+)
S_NEW == "NEW"
SKIPPED == "SKIPPED"
STAGE1_OK == "STAGE1_OK"
STAGE1_RELEVANT == "STAGE1_RELEVANT"
PDF_DOWNLOADED == "PDF_DOWNLOADED"
TEXT_EXTRACTED == "TEXT_EXTRACTED"
STAGE2_OK == "STAGE2_OK"
EMAILED == "EMAILED"
FAILED == "FAILED"

Statuses ==
  {S_NEW, SKIPPED, STAGE1_OK, STAGE1_RELEVANT, PDF_DOWNLOADED, TEXT_EXTRACTED,
   STAGE2_OK, EMAILED, FAILED}

\* a processed set without STAGE2_OK
ProcessedWithoutStage2Ok == {EMAILED, SKIPPED}

PROCESSED_STATUSES == {EMAILED, SKIPPED, STAGE2_OK}

IN_PROGRESS_STATUSES ==
  {S_NEW, STAGE1_OK, STAGE1_RELEVANT, PDF_DOWNLOADED, TEXT_EXTRACTED}

VARIABLES
  dbExists,   \* the papers table has been created
  table,      \* the rows of table papers
  now,        \* the wall clock, in seconds
  phase,      \* "idle" | "running": whether a run_pipeline process is alive
  fetched,    \* papers fetched so far, over all runs
  queue,      \* ids of the fetched papers the loop has not reached yet
  pc,         \* the position of the process in run_pipeline
  paper,      \* the paper of the current loop iteration (a sequence of 0 or 1)
  stage1,     \* local stage1 (parsed Stage-1 result), None before it is set
  full_text,  \* local full_text: None, or <<[src, len]>>
  stage2,     \* local stage2 (parsed summary)
  err,        \* the message of the mark_status(FAILED) about to be issued
  emailOk,    \* history: per id, how often send_digest_email returned
  calls,      \* history: the collaborator calls made for the paper reached
              \* last, in order, each with its outcome
  taken,      \* history: ids the loop of this run has reached, in order
  skipped,    \* history: ids this run skipped
  killed,     \* history: the last started run was killed
  last,       \* history: the last store call of this process
  ops,        \* direct API calls made in a store scenario
  given,      \* history: the optional arguments of the last direct mark_status
  sources,    \* history: the lists the three fetchers returned to the run,
              \* where a scenario records them
  conc,       \* two processes calling the store's write operations at the
              \* same time: the table before, and each call's position
  other,      \* the locals of a second sequencer instance, suspended while
              \* this one steps
  fn          \* a call of a function of model_client on its own: the
              \* function, its input, and its result or progress

vars ==
  <<dbExists, table, now, phase, fetched, queue, pc, paper, stage1, full_text,
    stage2, err, emailOk, calls, taken, skipped, killed, last, ops, given, sources,
    conc, other, fn>>

storeVars == <<dbExists, table, now>>

procVars == <<phase, fetched, queue, pc, paper, stage1, full_text, stage2, err>>

histVars == <<emailOk, calls, taken, skipped, killed>>

\* the variables of the scenarios beyond the plain run
apiVars == <<ops, given, sources, conc, other, fn>>

(***************************************************************************)
(* The status store: db.py                                                 *)
(***************************************************************************)
\* SELECT ... FROM papers WHERE arxiv_id = ?
RowsOf(t, id) == {r \in t : r.arxiv_id = id}

HasRow(t, id) == RowsOf(t, id) # {}

\* cur.fetchone()
FetchOne(t, id) == CHOOSE r \in RowsOf(t, id) : TRUE

StoredIds(t) == {r.arxiv_id : r \in t}

\* COALESCE(?, column)
Coalesce(arg, old) == IF arg # None THEN arg ELSE old

\* INSERT INTO papers: arxiv_id is the PRIMARY KEY, a second row with the
\* same key is refused
InsertRow(t, row) == IF HasRow(t, row.arxiv_id) THEN t ELSE t \cup {row}

\* a schema setup that drops the table it finds
EnsureDbRecreates(exists, t) == {}

\* CREATE TABLE IF NOT EXISTS papers: the rows of the table afterwards
ensure_db(exists, t) == IF exists THEN t ELSE {}

\* a blind insert that adds a second row for an existing id
UpsertBlindInsert(t, id, title, categories, status, time) ==
  t \cup {[arxiv_id |-> id, title |-> title, categories |-> categories,
           status |-> status, created_at |-> time, updated_at |-> time,
           stage1_json |-> None, stage2_json |-> None, error_message |-> None]}

\* an upsert that also writes the status argument over an existing row
UpsertOverwritesStatus(t, id, title, categories, status, time) ==
  IF ~HasRow(t, id)
  THEN UpsertBlindInsert(t, id, title, categories, status, time)
  ELSE {IF r.arxiv_id = id
        THEN [r EXCEPT !.title = title, !.categories = categories,
                       !.status = status, !.updated_at = time]
        ELSE r : r \in t}

upsert_paper_metadata(t, id, title, categories, status, time) ==
  IF ~HasRow(t, id)
  THEN InsertRow(t, [arxiv_id |-> id, title |-> title, categories |-> categories,
                     status |-> status, created_at |-> time, updated_at |-> time,
                     stage1_json |-> None, stage2_json |-> None,
                     error_message |-> None])
  ELSE {IF r.arxiv_id = id
        THEN [r EXCEPT !.title = title, !.categories = categories,
                       !.updated_at = time]
        ELSE r : r \in t}

\* an update that leaves the status column alone
MarkKeepsStatus(t, id, status, s1, s2, msg, time) ==
  {IF r.arxiv_id = id
   THEN [r EXCEPT !.updated_at = time,
                  !.stage1_json = Coalesce(s1, r.stage1_json),
                  !.stage2_json = Coalesce(s2, r.stage2_json),
                  !.error_message = Coalesce(msg, r.error_message)]
   ELSE r : r \in t}

\* an update that writes the optional arguments without COALESCE
MarkOverwritesPayloads(t, id, status, s1, s2, msg, time) ==
  {IF r.arxiv_id = id
   THEN [r EXCEPT !.status = status, !.updated_at = time,
                  !.stage1_json = s1, !.stage2_json = s2,
                  !.error_message = msg]
   ELSE r : r \in t}

\* an update that writes error_message without COALESCE
MarkClearsMessage(t, id, status, s1, s2, msg, time) ==
  {IF r.arxiv_id = id
   THEN [r EXCEPT !.status = status, !.updated_at = time,
                  !.stage1_json = Coalesce(s1, r.stage1_json),
                  !.stage2_json = Coalesce(s2, r.stage2_json),
                  !.error_message = msg]
   ELSE r : r \in t}

\* an update that inserts the row it does not find
MarkInsertsMissing(t, id, status, s1, s2, msg, time) ==
  IF \E r \in t : r.arxiv_id = id
  THEN {IF r.arxiv_id = id
        THEN [r EXCEPT !.status = status, !.updated_at = time,
                       !.stage1_json = Coalesce(s1, r.stage1_json),
                       !.stage2_json = Coalesce(s2, r.stage2_json),
                       !.error_message = Coalesce(msg, r.error_message)]
        ELSE r : r \in t}
  ELSE t \cup {[arxiv_id |-> id, title |-> "", categories |-> "",
                status |-> status, created_at |-> time, updated_at |-> time,
                stage1_json |-> s1, stage2_json |-> s2, error_message |-> msg]}

mark_status(t, id, status, s1, s2, msg, time) ==
  {IF r.arxiv_id = id
   THEN [r EXCEPT !.status = status, !.updated_at = time,
                  !.stage1_json = Coalesce(s1, r.stage1_json),
                  !.stage2_json = Coalesce(s2, r.stage2_json),
                  !.error_message = Coalesce(msg, r.error_message)]
   ELSE r : r \in t}

get_status(t, id) == IF HasRow(t, id) THEN FetchOne(t, id).status ELSE NoStatus

\* a processed set that leaves out STAGE2_OK
IsProcessedNarrow(t, id) == get_status(t, id) \in {EMAILED, SKIPPED}

is_processed(t, id) == get_status(t, id) \in PROCESSED_STATUSES

\* a skip test that counts only the processed statuses
SkipOnlyProcessed(t, id) ==
  LET s == get_status(t, id) IN
  IF s = NoStatus THEN FALSE ELSE s \in PROCESSED_STATUSES

\* a skip test that counts only the in-flight statuses
SkipOnlyInProgress(t, id) ==
  LET s == get_status(t, id) IN
  IF s = NoStatus THEN FALSE ELSE s \in IN_PROGRESS_STATUSES

\* a skip test that holds back failed papers as well
SkipAnyRow(t, id) == get_status(t, id) # NoStatus

is_in_progress_or_processed(t, id) ==
  LET s == get_status(t, id) IN
  IF s = NoStatus THEN FALSE
  ELSE s \in PROCESSED_STATUSES \/ s \in IN_PROGRESS_STATUSES

(***************************************************************************)
(* The collaborators' replies, as the sequencer sees them.                 *)
(***************************************************************************)
\* relevance 1.0 in the model's units
RelOne == 2
\* config["thresholds"]["relevance"]: 0.5 in the model's units
threshold == 1
\* the floor of an abstract used as text: len(full_text) < 50
AbstractFloor == 50
\* the floor of extracted PDF text: n_chars < 100
TextFloor == 100
\* len("(No abstract)")
NoAbstractLen == 13

\* a topic entry of a model reply: its "relevance" is a number ("num"),
\* null ("null"), text that float() refuses ("text"), or the key is not
\* there ("missing")
Topics ==
  [kind : {"num"}, r : 0 .. MaxRel]
    \cup [kind : {"null", "text", "missing"}, r : {0}]

SeqsUpTo(S, n) == UNION {[1 .. k -> S] : k \in 0 .. n}

\* what chat_completion returns for a Stage-1 prompt: text that does not
\* parse, or a JSON object with a topics list
Stage1Replies ==
  {[valid |-> FALSE, topics |-> << >>]}
    \cup [valid : {TRUE}, topics : SeqsUpTo(Topics, MaxTopics)]

\* what chat_completion returns for a Stage-2 prompt
Stage2Replies ==
  {[valid |-> FALSE, summary |-> 0]}
    \cup [valid : {TRUE}, summary : 1 .. NumSummaries]

\* a float() that leaves the value as it is
NoClamp(r) == r

\* max(0.0, min(1.0, float(r)))
Clamp(r) == IF r < 0 THEN 0 ELSE IF r > RelOne THEN RelOne ELSE r

\* lines 130-135 and 136-140: a number is clamped, text becomes 0.0, a null
\* relevance and a missing key are left as they are
ClampRelevance(v) ==
  CASE v.kind = "num" -> [kind |-> "num", r |-> Clamp(v.r)]
    [] v.kind = "text" -> [kind |-> "num", r |-> 0]
    [] OTHER -> v

\* parse_stage1_json: the topics of the parsed result
parse_stage1_json(reply) ==
  [ok |-> reply.valid,
   topics |-> [i \in 1 .. Len(reply.topics) |->
                 ClampRelevance(reply.topics[i])]]

parse_stage2_json(reply) == [ok |-> reply.valid, summary |-> reply.summary]

RECURSIVE MaxOf(_, _)
\* max(..., default=0) over t.get("relevance", 0): a missing key gives 0
MaxOf(topics, i) ==
  IF i > Len(topics) THEN 0
  ELSE LET m == MaxOf(topics, i + 1) IN
       IF i = Len(topics) THEN topics[i].r
       ELSE IF topics[i].r > m THEN topics[i].r ELSE m

\* max() compares None with a number, or max_relevance < threshold compares
\* None: TypeError
RelevanceRaises(topics) == \E i \in 1 .. Len(topics) : topics[i].kind = "null"

MaxIsZero(topics) == 0

max_relevance(topics) == MaxOf(topics, 1)

\* fetched title and categories of a paper
Metas ==
  {[title |-> "T1", categories |-> <<"cs.LG">>],
   [title |-> "T2", categories |-> <<"cs.LG", "cs.AI">>]}

RECURSIVE Join(_, _)
\* ",".join(categories)
Join(sep, list) ==
  IF list = << >> THEN ""
  ELSE IF Len(list) = 1 THEN list[1]
  ELSE list[1] \o sep \o Join(sep, Tail(list))

\* len((paper.get("abstract") or "").strip())
AbstractLens == {0, AbstractFloor - 1, AbstractFloor}

\* len(full_text) for (abstract or "").strip() or "(No abstract)"
FallbackLen(alen) == IF alen = 0 THEN NoAbstractLen ELSE alen

\* what extract_text returns: n_chars and whether the text starts with
\* "[Extraction failed:"
ExtractedTexts ==
  {[len |-> TextFloor - 1, marker |-> FALSE],
   [len |-> TextFloor, marker |-> FALSE],
   [len |-> TextFloor, marker |-> TRUE]}

\* the lists a fetcher returns: every id at most once
DistinctSeqs ==
  {q \in SeqsUpTo(Ids, Cardinality(Ids)) :
     \A i, j \in 1 .. Len(q) : i # j => q[i] # q[j]}

\* the papers of one source, each with the source it came from
Tagged(q, src) == [k \in 1 .. Len(q) |-> [arxiv_id |-> q[k], from |-> src]]

IdsOf(papers) == [k \in 1 .. Len(papers) |-> papers[k].arxiv_id]

\* a merge that appends every paper of a later source
AppendAll(papers, more) == papers \o more

RECURSIVE AppendUnseen(_, _)
\* for p in more: if p["arxiv_id"] not in seen_ids: papers.append(p)
AppendUnseen(papers, more) ==
  IF more = << >> THEN papers
  ELSE LET seen_ids == {papers[i].arxiv_id : i \in 1 .. Len(papers)} IN
       AppendUnseen(IF Head(more).arxiv_id \in seen_ids THEN papers
                    ELSE Append(papers, Head(more)),
                    Tail(more))

\* lines 54-88: the arXiv list, then the Google Scholar and the Semantic
\* Scholar papers whose id was not seen before
Fetched(arxiv, scholar, ss) ==
  AppendUnseen(AppendUnseen(Tagged(arxiv, "arxiv"), Tagged(scholar, "scholar")),
               Tagged(ss, "semantic_scholar"))

\* the ids of the merged list, in the order the loop of line 94 meets them
FetchResults ==
  {IdsOf(Fetched(arxiv, scholar, ss)) :
     arxiv \in DistinctSeqs, scholar \in DistinctSeqs, ss \in DistinctSeqs}

Collaborators ==
  {"model_s1", "model_s1_repair", "download", "extract",
   "model_s2", "model_s2_repair", "email"}

\* the record of a store call: the operation, its id, for a call of the
\* sequencer the status stored for the id before the call, the status
\* argument and the value returned
Call(op, id, pre, arg, ret) ==
  [op |-> op, id |-> id, pre |-> pre, arg |-> arg, ret |-> ret]

NoCall == Call("none", "", NoStatus, NoStatus, FALSE)

\* stage1_json, stage2_json and error_message all omitted
NoArgs == <<None, None, None>>

(***************************************************************************)
(* run_pipeline: pipeline.py                                               *)
(***************************************************************************)
\* the current paper
arxiv_id == paper[1].arxiv_id

\* a collaborator call and what came of it
Invoke(name, out) == calls' = Append(calls, [c |-> name, out |-> out])

\* a mark_status call of the sequencer on the current paper
Mark(status, s1, s2, msg) ==
  /\ table' = mark_status(table, arxiv_id, status, s1, s2, msg, now)
  /\ last' = Call("mark", arxiv_id, get_status(table, arxiv_id), status, FALSE)
  /\ UNCHANGED <<dbExists, now>>

\* continue: the loop goes on to the next paper
Continue ==
  /\ pc' = "loop"
  /\ paper' = << >>
  /\ stage1' = None
  /\ full_text' = None
  /\ stage2' = None
  /\ err' = None

\* an exception or an explicit failure: mark_status(FAILED, error_message)
\* is the next step
Fail(msg) == pc' = "mark_failed" /\ err' = Some(msg)

\* full_text = (paper.get("abstract") or "").strip() or "(No abstract)",
\* then the floor check; the abstract is read here for the first time, after
\* the collaborator calls in made, and the history keeps its length
UseAbstract(shortMsg, made) ==
  \E alen \in AbstractLens :
    /\ calls' = calls \o made
                  \o <<[c |-> "abstract", out |-> "read", len |-> alen]>>
    /\ IF FallbackLen(alen) < AbstractFloor
       THEN Fail(shortMsg) /\ UNCHANGED full_text
       ELSE /\ full_text' = Some([src |-> "abstract", len |-> FallbackLen(alen)])
            /\ pc' = "mark_text"
            /\ UNCHANGED err

\* lines 29-92: load the configuration, ensure_db, fetch and merge.  The
\* clock is read at the start of a run or a second later, and all writes of
\* the run read that second.
Begin(papers, fetchedLists) ==
  /\ phase = "idle"
  /\ phase' = "running"
  /\ dbExists' = TRUE
  /\ \E time \in {now, now + 1} : time <= MaxClock /\ now' = time
  /\ fetched + Len(papers) <= MaxFetched
  /\ queue' = papers
  /\ fetched' = fetched + Len(papers)
  /\ pc' = "loop"
  /\ calls' = << >>
  /\ taken' = << >>
  /\ skipped' = {}
  /\ killed' = FALSE
  /\ last' = NoCall
  /\ table' = ensure_db(dbExists, table)
  /\ given' = NoArgs
  /\ sources' = fetchedLists
  /\ UNCHANGED <<conc, other, fn>>
  /\ UNCHANGED <<paper, stage1, full_text, stage2, err, emailOk, ops>>

StartRun == \E papers \in FetchResults : Begin(papers, << >>)

\* the same start, with the three fetched lists and the merged list kept
StartRunRecorded ==
  /\ phase = "idle"
  /\ \E arxiv \in DistinctSeqs, scholar \in DistinctSeqs, ss \in DistinctSeqs :
       /\ Len(arxiv) + Len(scholar) + Len(ss) <= MaxListed
       /\ Begin(IdsOf(Fetched(arxiv, scholar, ss)),
               <<[arxiv |-> arxiv, scholar |-> scholar, ss |-> ss,
                  papers |-> Fetched(arxiv, scholar, ss)]>>)

\* a failed load that comes after the schema setup
LoadFailsAfterEnsureDb ==
  /\ phase = "idle"
  /\ last' = Call("load_config raised", "", NoStatus, NoStatus, FALSE)
  /\ calls' = << >>
  /\ taken' = << >>
  /\ skipped' = {}
  /\ killed' = FALSE
  /\ dbExists' = TRUE
  /\ table' = ensure_db(dbExists, table)
  /\ UNCHANGED <<now, procVars, emailOk, apiVars>>

\* load_config or load_topics raises at line 29 or 30, before ensure_db at
\* line 40: run_pipeline ends there
LoadFails ==
  /\ phase = "idle"
  /\ \E op \in {"load_config raised", "load_topics raised"} :
       last' = Call(op, "", NoStatus, NoStatus, FALSE)
  /\ calls' = << >>
  /\ taken' = << >>
  /\ skipped' = {}
  /\ killed' = FALSE
  /\ UNCHANGED <<storeVars, procVars, emailOk, apiVars>>

\* lines 94-101: the loop reaches a paper the skip check holds back
SkipPaper ==
  /\ phase = "running" /\ pc = "loop" /\ queue # << >>
  /\ is_in_progress_or_processed(table, Head(queue))
  /\ queue' = Tail(queue)
  /\ taken' = Append(taken, Head(queue))
  /\ skipped' = skipped \cup {Head(queue)}
  /\ calls' = << >>
  /\ UNCHANGED <<storeVars, phase, fetched, pc, paper, stage1, full_text,
                 stage2, err, emailOk, killed, last, apiVars>>

\* a skip check that writes the NEW record in the same step
TakePaperWritesNew ==
  /\ phase = "running" /\ pc = "loop" /\ queue # << >>
  /\ ~is_in_progress_or_processed(table, Head(queue))
  /\ \E m \in Metas :
       /\ paper' = <<[arxiv_id |-> Head(queue), title |-> m.title,
                      categories |-> m.categories]>>
       /\ table' = upsert_paper_metadata(table, Head(queue), m.title,
                                         Join(",", m.categories), S_NEW, now)
  /\ queue' = Tail(queue)
  /\ taken' = Append(taken, Head(queue))
  /\ pc' = "upsert"
  /\ calls' = << >>
  /\ UNCHANGED <<dbExists, now, phase, fetched, stage1, full_text, stage2,
                 err, emailOk, skipped, killed, last, apiVars>>

\* lines 94-99: the loop reaches a paper that passes the skip check
TakePaper ==
  /\ phase = "running" /\ pc = "loop" /\ queue # << >>
  /\ ~is_in_progress_or_processed(table, Head(queue))
  /\ \E m \in Metas :
       paper' = <<[arxiv_id |-> Head(queue), title |-> m.title,
                   categories |-> m.categories]>>
  /\ queue' = Tail(queue)
  /\ taken' = Append(taken, Head(queue))
  /\ pc' = "upsert"
  /\ calls' = << >>
  /\ UNCHANGED <<storeVars, phase, fetched, stage1, full_text, stage2,
                 err, emailOk, skipped, killed, last, apiVars>>

\* line 103
Upsert ==
  /\ phase = "running" /\ pc = "upsert"
  /\ table' = upsert_paper_metadata(table, arxiv_id, paper[1].title,
                                    Join(",", paper[1].categories), S_NEW, now)
  /\ last' = Call("upsert", arxiv_id, get_status(table, arxiv_id), S_NEW, FALSE)
  /\ pc' = "stage1"
  /\ UNCHANGED <<dbExists, now, phase, fetched, queue, paper, stage1, full_text,
                 stage2, err, histVars, apiVars>>

\* a Stage 1 that fails on the first reply that does not parse
Stage1CallNoRepair ==
  /\ phase = "running" /\ pc = "stage1"
  /\ \/ Invoke("model_s1", "raised") /\ Fail("Model call failed") /\ UNCHANGED stage1
     \/ \E reply \in Stage1Replies :
          LET parsed == parse_stage1_json(reply) IN
          IF parsed.ok
          THEN /\ Invoke("model_s1", "parsed")
               /\ stage1' = Some(parsed.topics) /\ pc' = "mark_stage1_ok"
               /\ UNCHANGED err
          ELSE /\ Invoke("model_s1", "unparsed")
               /\ Fail("Invalid JSON") /\ UNCHANGED stage1
  /\ UNCHANGED <<storeVars, phase, fetched, queue, paper, full_text,
                 stage2, emailOk, taken, skipped, killed, last, apiVars>>

\* lines 107-118: the Stage-1 model call and the parse of its reply
Stage1Call ==
  /\ phase = "running" /\ pc = "stage1"
  /\ \/ Invoke("model_s1", "raised") /\ Fail("Model call failed") /\ UNCHANGED stage1
     \/ \E reply \in Stage1Replies :
          LET parsed == parse_stage1_json(reply) IN
          IF parsed.ok
          THEN /\ Invoke("model_s1", "parsed")
               /\ stage1' = Some(parsed.topics) /\ pc' = "mark_stage1_ok"
               /\ UNCHANGED err
          ELSE /\ Invoke("model_s1", "unparsed")
               /\ pc' = "stage1_repair" /\ UNCHANGED <<stage1, err>>
  /\ UNCHANGED <<storeVars, phase, fetched, queue, paper, full_text,
                 stage2, emailOk, taken, skipped, killed, last, apiVars>>

\* lines 119-126: the repair call; a second failure ends the paper
Stage1Repair ==
  /\ phase = "running" /\ pc = "stage1_repair"
  /\ \/ Invoke("model_s1_repair", "raised") /\ Fail("Model call failed") /\ UNCHANGED stage1
     \/ \E reply \in Stage1Replies :
          LET parsed == parse_stage1_json(reply) IN
          IF parsed.ok
          THEN /\ Invoke("model_s1_repair", "parsed")
               /\ stage1' = Some(parsed.topics) /\ pc' = "mark_stage1_ok"
               /\ UNCHANGED err
          ELSE /\ Invoke("model_s1_repair", "unparsed")
               /\ Fail("Invalid JSON") /\ UNCHANGED stage1
  /\ UNCHANGED <<storeVars, phase, fetched, queue, paper, full_text,
                 stage2, emailOk, taken, skipped, killed, last, apiVars>>

\* a sequencer that stores STAGE1_OK first and the result later
MarkStage1OkWithoutResult ==
  /\ phase = "running" /\ pc = "mark_stage1_ok"
  /\ Mark(STAGE1_OK, None, None, None)
  /\ IF RelevanceRaises(stage1[1]) THEN Fail("TypeError")
     ELSE /\ pc' = IF max_relevance(stage1[1]) < threshold
                   THEN "mark_skipped" ELSE "mark_relevant"
          /\ UNCHANGED err
  /\ UNCHANGED <<phase, fetched, queue, paper, stage1, full_text,
                 stage2, histVars, apiVars>>

\* lines 128-140: STAGE1_OK with the payload, then the relevance gate
MarkStage1Ok ==
  /\ phase = "running" /\ pc = "mark_stage1_ok"
  /\ Mark(STAGE1_OK, stage1, None, None)
  /\ IF RelevanceRaises(stage1[1]) THEN Fail("TypeError")
     ELSE /\ pc' = IF max_relevance(stage1[1]) < threshold
                   THEN "mark_skipped" ELSE "mark_relevant"
          /\ UNCHANGED err
  /\ UNCHANGED <<phase, fetched, queue, paper, stage1, full_text,
                 stage2, histVars, apiVars>>

\* a gate that marks SKIPPED and goes on to the download
MarkSkippedGoesOn ==
  /\ phase = "running" /\ pc = "mark_skipped"
  /\ Mark(SKIPPED, None, None, None)
  /\ pc' = "download"
  /\ UNCHANGED <<phase, fetched, queue, paper, stage1, full_text, stage2, err,
                 histVars, apiVars>>

\* lines 138-140
MarkSkipped ==
  /\ phase = "running" /\ pc = "mark_skipped"
  /\ Mark(SKIPPED, None, None, None)
  /\ Continue
  /\ UNCHANGED <<phase, fetched, queue, histVars, apiVars>>

\* lines 142-147 and 195-202: STAGE1_RELEVANT, then the choice of the text
\* source; pdf_url is read here for the first time
MarkRelevant ==
  /\ phase = "running" /\ pc = "mark_relevant"
  /\ Mark(STAGE1_RELEVANT, None, None, None)
  /\ \/ pc' = "download" /\ UNCHANGED <<full_text, err, calls>>
     \/ UseAbstract("No PDF and abstract too short", << >>)
  /\ UNCHANGED <<phase, fetched, queue, paper, stage1, stage2, emailOk, taken,
                 skipped, killed, apiVars>>

\* a download whose failure ends the paper, whatever the abstract
DownloadFailureFails ==
  /\ phase = "running" /\ pc = "download"
  /\ \/ /\ Invoke("download", "ok")
        /\ pc' = "mark_pdf" /\ UNCHANGED <<full_text, err>>
     \/ \E alen \in AbstractLens :
          /\ calls' = calls \o <<[c |-> "download", out |-> "raised"],
                                 [c |-> "abstract", out |-> "read", len |-> alen]>>
          /\ Fail("PDF failed and abstract too short") /\ UNCHANGED full_text
  /\ UNCHANGED <<storeVars, phase, fetched, queue, paper, stage1, stage2, emailOk,
                 taken, skipped, killed, last, apiVars>>

\* lines 148-160: the download; on failure the abstract is the text
Download ==
  /\ phase = "running" /\ pc = "download"
  /\ \/ /\ Invoke("download", "ok")
        /\ pc' = "mark_pdf" /\ UNCHANGED <<full_text, err>>
     \/ UseAbstract("PDF failed and abstract too short",
                    <<[c |-> "download", out |-> "raised"]>>)
  /\ UNCHANGED <<storeVars, phase, fetched, queue, paper, stage1, stage2, emailOk,
                 taken, skipped, killed, last, apiVars>>

\* line 163
MarkPdfDownloaded ==
  /\ phase = "running" /\ pc = "mark_pdf"
  /\ Mark(PDF_DOWNLOADED, None, None, None)
  /\ pc' = "extract"
  /\ UNCHANGED <<phase, fetched, queue, paper, stage1, full_text,
                 stage2, err, histVars, apiVars>>

\* an extraction whose text is used without the check
ExtractUnchecked ==
  /\ phase = "running" /\ pc = "extract"
  /\ \E text \in ExtractedTexts :
       /\ Invoke("extract",
                 IF text.marker \/ text.len < TextFloor THEN "bad" ELSE "ok")
       /\ full_text' = Some([src |-> "pdf", len |-> text.len])
       /\ pc' = "mark_text"
  /\ UNCHANGED <<storeVars, phase, fetched, queue, paper, stage1, stage2, err,
                 emailOk, taken, skipped, killed, last, apiVars>>

\* lines 164-193: the extraction and the check of its text
Extract ==
  /\ phase = "running" /\ pc = "extract"
  /\ \/ UseAbstract("PDF text extraction",
                    <<[c |-> "extract", out |-> "raised"]>>)
     \/ \E text \in ExtractedTexts :
          IF text.marker \/ text.len < TextFloor
          THEN UseAbstract("PDF text too short",
                           <<[c |-> "extract", out |-> "bad"]>>)
          ELSE /\ Invoke("extract", "ok")
               /\ full_text' = Some([src |-> "pdf", len |-> text.len])
               /\ pc' = "mark_text"
               /\ UNCHANGED err
  /\ UNCHANGED <<storeVars, phase, fetched, queue, paper, stage1, stage2, emailOk,
                 taken, skipped, killed, last, apiVars>>

\* a sequencer that goes to Stage 2 without storing TEXT_EXTRACTED
TextExtractedNotStored ==
  /\ phase = "running" /\ pc = "mark_text"
  /\ pc' = "stage2"
  /\ UNCHANGED <<storeVars, last, phase, fetched, queue, paper, stage1,
                 full_text, stage2, err, histVars, apiVars>>

\* lines 161, 176, 194, 202
MarkTextExtracted ==
  /\ phase = "running" /\ pc = "mark_text"
  /\ Mark(TEXT_EXTRACTED, None, None, None)
  /\ pc' = "stage2"
  /\ UNCHANGED <<phase, fetched, queue, paper, stage1, full_text,
                 stage2, err, histVars, apiVars>>

\* lines 205-215: the Stage-2 model call and the parse of its reply
Stage2Call ==
  /\ phase = "running" /\ pc = "stage2"
  /\ \/ Invoke("model_s2", "raised") /\ Fail("Model call failed") /\ UNCHANGED stage2
     \/ \E reply \in Stage2Replies :
          LET parsed == parse_stage2_json(reply) IN
          IF parsed.ok
          THEN /\ Invoke("model_s2", "parsed")
               /\ stage2' = Some(parsed.summary) /\ pc' = "mark_stage2_ok"
               /\ UNCHANGED err
          ELSE /\ Invoke("model_s2", "unparsed")
               /\ pc' = "stage2_repair" /\ UNCHANGED <<stage2, err>>
  /\ UNCHANGED <<storeVars, phase, fetched, queue, paper, stage1, full_text,
                 emailOk, taken, skipped, killed, last, apiVars>>

\* a Stage-2 repair that sends the email whatever came of it
Stage2RepairGoesOn ==
  /\ phase = "running" /\ pc = "stage2_repair"
  /\ \E out \in {"raised", "unparsed"} : Invoke("model_s2_repair", out)
  /\ pc' = "email"
  /\ UNCHANGED <<storeVars, phase, fetched, queue, paper, stage1, full_text,
                 stage2, err, emailOk, taken, skipped, killed, last, apiVars>>

\* lines 216-223
Stage2Repair ==
  /\ phase = "running" /\ pc = "stage2_repair"
  /\ \/ Invoke("model_s2_repair", "raised") /\ Fail("Stage2 parse: Model call failed") /\ UNCHANGED stage2
     \/ \E reply \in Stage2Replies :
          LET parsed == parse_stage2_json(reply) IN
          IF parsed.ok
          THEN /\ Invoke("model_s2_repair", "parsed")
               /\ stage2' = Some(parsed.summary) /\ pc' = "mark_stage2_ok"
               /\ UNCHANGED err
          ELSE /\ Invoke("model_s2_repair", "unparsed")
               /\ Fail("Stage2 parse: Invalid JSON") /\ UNCHANGED stage2
  /\ UNCHANGED <<storeVars, phase, fetched, queue, paper, stage1, full_text,
                 emailOk, taken, skipped, killed, last, apiVars>>

\* lines 225-228
MarkStage2Ok ==
  /\ phase = "running" /\ pc = "mark_stage2_ok"
  /\ Mark(STAGE2_OK, None, stage2, None)
  /\ pc' = "email"
  /\ UNCHANGED <<phase, fetched, queue, paper, stage1, full_text,
                 stage2, err, histVars, apiVars>>

\* an email step whose failure is logged and passed over
EmailFailureIgnored ==
  /\ phase = "running" /\ pc = "email"
  /\ \/ /\ Invoke("email", "ok")
        /\ emailOk' = [emailOk EXCEPT ![arxiv_id] =
                         IF @ < MaxCount THEN @ + 1 ELSE @]
     \/ Invoke("email", "raised") /\ UNCHANGED emailOk
  /\ pc' = "mark_emailed"
  /\ UNCHANGED <<storeVars, phase, fetched, queue, paper, stage1, full_text,
                 stage2, err, taken, skipped, killed, last, apiVars>>

\* lines 231-249: send_digest_email returns or raises
Email ==
  /\ phase = "running" /\ pc = "email"
  /\ \/ /\ Invoke("email", "ok")
        /\ emailOk' = [emailOk EXCEPT ![arxiv_id] =
                         IF @ < MaxCount THEN @ + 1 ELSE @]
        /\ pc' = "mark_emailed"
        /\ UNCHANGED err
     \/ Invoke("email", "raised") /\ Fail("Email") /\ UNCHANGED emailOk
  /\ UNCHANGED <<storeVars, phase, fetched, queue, paper, stage1, full_text,
                 stage2, taken, skipped, killed, last, apiVars>>

\* lines 251-252
MarkEmailed ==
  /\ phase = "running" /\ pc = "mark_emailed"
  /\ Mark(EMAILED, None, None, None)
  /\ Continue
  /\ UNCHANGED <<phase, fetched, queue, histVars, apiVars>>

\* a handler that goes on to the next paper without storing FAILED
FailedNotStored ==
  /\ phase = "running" /\ pc = "mark_failed"
  /\ Continue
  /\ UNCHANGED <<storeVars, phase, fetched, queue, histVars, last, apiVars>>

\* lines 125, 159, 174, 192, 200, 222, 248, 256: FAILED with the message,
\* then the next paper
MarkFailed ==
  /\ phase = "running" /\ pc = "mark_failed"
  /\ Mark(FAILED, None, None, err)
  /\ Continue
  /\ UNCHANGED <<phase, fetched, queue, histVars, apiVars>>

\* line 258: the loop is over
FinishRun ==
  /\ phase = "running" /\ pc = "loop" /\ queue = << >>
  /\ phase' = "idle"
  /\ pc' = "idle"
  /\ UNCHANGED <<storeVars, fetched, queue, paper, stage1, full_text,
                 stage2, err, histVars, last, apiVars>>

\* the process is killed between two steps: its locals are lost, the store
\* keeps what was committed
Kill ==
  /\ phase = "running"
  /\ phase' = "idle"
  /\ pc' = "idle"
  /\ queue' = << >>
  /\ paper' = << >>
  /\ stage1' = None
  /\ full_text' = None
  /\ stage2' = None
  /\ err' = None
  /\ killed' = TRUE
  /\ calls' = << >>
  /\ taken' = << >>
  /\ skipped' = {}
  /\ last' = NoCall
  /\ UNCHANGED <<storeVars, fetched, emailOk, apiVars>>

\* no function of model_client is being called on its own
NoFn == [f |-> "none"]

\* a process that is not in a call
NoCallInFlight ==
  [op |-> "none", pc |-> "done", id |-> "", title |-> "", categories |-> "",
   status |-> NoStatus, s1 |-> None, s2 |-> None, msg |-> None, time |-> 0,
   row |-> NoStatus, error |-> "none"]

NoConc == [base |-> {}, p |-> <<NoCallInFlight, NoCallInFlight>>]

\* the locals of a sequencer instance that has not started a run
IdleLocals ==
  [phase |-> "idle", queue |-> << >>, pc |-> "idle", paper |-> << >>,
   stage1 |-> None, full_text |-> None, stage2 |-> None, err |-> None,
   calls |-> << >>, taken |-> << >>, skipped |-> {}]

Init ==
  /\ dbExists = FALSE
  /\ table = {}
  /\ now = 0
  /\ phase = "idle"
  /\ fetched = 0
  /\ queue = << >>
  /\ pc = "idle"
  /\ paper = << >>
  /\ stage1 = None
  /\ full_text = None
  /\ stage2 = None
  /\ err = None
  /\ emailOk = [i \in Ids |-> 0]
  /\ calls = << >>
  /\ taken = << >>
  /\ skipped = {}
  /\ killed = FALSE
  /\ last = NoCall
  /\ ops = 0
  /\ given = NoArgs
  /\ sources = << >>
  /\ conc = NoConc
  /\ other = IdleLocals
  /\ fn = NoFn

Next ==
  \/ StartRun
  \/ LoadFails
  \/ SkipPaper
  \/ TakePaper
  \/ Upsert
  \/ Stage1Call
  \/ Stage1Repair
  \/ MarkStage1Ok
  \/ MarkSkipped
  \/ MarkRelevant
  \/ Download
  \/ MarkPdfDownloaded
  \/ Extract
  \/ MarkTextExtracted
  \/ Stage2Call
  \/ Stage2Repair
  \/ MarkStage2Ok
  \/ Email
  \/ MarkEmailed
  \/ MarkFailed
  \/ FinishRun
  \/ Kill

\* any sequence of runs of one sequencer, each run to its end or killed
Spec == Init /\ [][Next]_vars

(***************************************************************************)
(* The store's API called directly, as tests/test_db.py does: up to MaxOps *)
(* calls with any arguments, on any id, while no run is alive.             *)
(***************************************************************************)
\* title and categories arguments
ApiMetas == {<<m.title, Join(",", m.categories)>> : m \in Metas}

\* stage1_json arguments
ApiStage1Jsons == {None, Some(<< >>), Some(<<[kind |-> "num", r |-> threshold]>>)}

\* stage2_json arguments
ApiStage2Jsons == {None} \cup {Some(k) : k \in 1 .. NumSummaries}

\* error_message arguments
ApiMessages == {None, Some("E1"), Some("E2")}

ApiReady == phase = "idle" /\ dbExists /\ ops < MaxOps

\* ensure_db: CREATE TABLE IF NOT EXISTS; a call on an existing store is
\* counted in ops
ApiEnsureDb ==
  /\ phase = "idle"
  /\ ~dbExists \/ ops < MaxOps
  /\ dbExists' = TRUE
  /\ last' = Call("ensure_db", "", NoStatus, NoStatus, FALSE)
  /\ ops' = IF dbExists THEN ops + 1 ELSE ops
  /\ given' = NoArgs
  /\ UNCHANGED <<sources, conc, other, fn>>
  /\ table' = ensure_db(dbExists, table)
  /\ UNCHANGED <<now, procVars, histVars>>

ApiUpsert ==
  /\ ApiReady
  /\ \E id \in Ids, m \in ApiMetas, status \in Statuses :
       /\ table' = upsert_paper_metadata(table, id, m[1], m[2], status, now)
       /\ last' = Call("upsert", id, NoStatus, status, FALSE)
  /\ ops' = ops + 1
  /\ given' = NoArgs
  /\ UNCHANGED <<sources, conc, other, fn>>
  /\ UNCHANGED <<dbExists, now, procVars, histVars>>

ApiMarkStatus ==
  /\ ApiReady
  /\ \E id \in Ids, status \in Statuses, s1 \in ApiStage1Jsons,
        s2 \in ApiStage2Jsons, msg \in ApiMessages :
       /\ table' = mark_status(table, id, status, s1, s2, msg, now)
       /\ last' = Call("mark", id, NoStatus, status, FALSE)
       /\ given' = <<s1, s2, msg>>
       /\ UNCHANGED <<sources, conc, other, fn>>
  /\ ops' = ops + 1
  /\ UNCHANGED <<dbExists, now, procVars, histVars>>

ApiIsProcessed ==
  /\ ApiReady
  /\ \E id \in Ids :
       last' = Call("is_processed", id, get_status(table, id), NoStatus,
                    is_processed(table, id))
  /\ ops' = ops + 1
  /\ given' = NoArgs
  /\ UNCHANGED <<sources, conc, other, fn>>
  /\ UNCHANGED <<storeVars, procVars, histVars>>

ApiIsInProgressOrProcessed ==
  /\ ApiReady
  /\ \E id \in Ids :
       last' = Call("is_in_progress_or_processed", id, get_status(table, id),
                    NoStatus, is_in_progress_or_processed(table, id))
  /\ ops' = ops + 1
  /\ given' = NoArgs
  /\ UNCHANGED <<sources, conc, other, fn>>
  /\ UNCHANGED <<storeVars, procVars, histVars>>

\* a second passes between two calls
Tick ==
  /\ phase = "idle"
  /\ now < MaxClock
  /\ now' = now + 1
  /\ UNCHANGED <<dbExists, table, procVars, histVars, last, apiVars>>

NextStore ==
  \/ ApiEnsureDb
  \/ ApiUpsert
  \/ ApiMarkStatus
  \/ ApiIsProcessed
  \/ ApiIsInProgressOrProcessed
  \/ Tick

\* any sequence of direct calls of the store's API
SpecStore == Init /\ [][NextStore]_vars

\* runs of the sequencer that fetch up to MaxMixedFetched papers and,
\* before, between and after them, up to MaxMixedOps direct calls of the
\* API's writing operations
NextAll ==
  \/ Next /\ fetched' <= MaxMixedFetched
  \/ ops < MaxMixedOps /\ (ApiEnsureDb \/ ApiUpsert \/ ApiMarkStatus)

SpecAll == Init /\ [][NextAll]_vars

\* one run whose fetch is recorded, after runs whose fetch is not
NextFetch ==
  \/ sources = << >> /\ StartRun /\ fetched' <= MaxMixedFetched
  \/ sources = << >> /\ StartRunRecorded
  \/ SkipPaper
  \/ TakePaper
  \/ Upsert
  \/ Stage1Call
  \/ Stage1Repair
  \/ MarkStage1Ok
  \/ MarkSkipped
  \/ MarkRelevant
  \/ Download
  \/ MarkPdfDownloaded
  \/ Extract
  \/ MarkTextExtracted
  \/ Stage2Call
  \/ Stage2Repair
  \/ MarkStage2Ok
  \/ Email
  \/ MarkEmailed
  \/ MarkFailed
  \/ FinishRun

SpecFetch == Init /\ [][NextFetch]_vars

(***************************************************************************)
(* Store calls that raise (sqlite3.OperationalError: the database is       *)
(* locked, the disk is full): the statement has no effect and the          *)
(* exception goes to the nearest handler of run_pipeline.                  *)
(***************************************************************************)
\* run_pipeline raises: the process ends where it is, the rest of the queue
\* is never reached
Abort(op) ==
  /\ phase' = "idle"
  /\ pc' = "idle"
  /\ paper' = << >>
  /\ stage1' = None
  /\ full_text' = None
  /\ stage2' = None
  /\ err' = None
  /\ calls' = << >>
  /\ last' = Call(op, Head(taken \o queue), NoStatus, NoStatus, FALSE)
  /\ UNCHANGED <<storeVars, fetched, queue, emailOk, taken, skipped, killed,
                 apiVars>>

\* the FAILED write about to be issued is the one of the handler at lines
\* 254-256, not one of the writes inside the try block
InOuterHandler ==
  /\ pc = "mark_failed"
  /\ \/ err \in {Some("TypeError"), Some("StoreError")}
     \/ err = Some("Model call failed") /\ calls[Len(calls)].c # "model_s1_repair"

\* line 99: the skip check is outside the try block
SkipCheckRaises ==
  /\ phase = "running" /\ pc = "loop" /\ queue # << >>
  /\ Abort("is_in_progress_or_processed raised")

\* line 103: and so is the upsert
UpsertRaises ==
  /\ phase = "running" /\ pc = "upsert"
  /\ Abort("upsert raised")

\* a mark_status inside the try block raises: the handler at 254-256 is next
MarkRaises ==
  /\ phase = "running"
  /\ \/ pc \in {"mark_stage1_ok", "mark_skipped", "mark_relevant", "mark_pdf",
                 "mark_text", "mark_stage2_ok", "mark_emailed"}
     \/ pc = "mark_failed" /\ ~InOuterHandler
  /\ Fail("StoreError")
  /\ UNCHANGED <<storeVars, phase, fetched, queue, paper, stage1, full_text,
                 stage2, histVars, last, apiVars>>

\* line 256: the mark_status of the handler raises, out of run_pipeline
HandlerMarkRaises ==
  /\ phase = "running" /\ InOuterHandler
  /\ Abort("mark raised")

NextFaulty ==
  \/ Next
  \/ SkipCheckRaises
  \/ UpsertRaises
  \/ MarkRaises
  \/ HandlerMarkRaises

\* runs of one sequencer over a store whose calls may raise
SpecFaulty == Init /\ [][NextFaulty]_vars

(***************************************************************************)
(* Two processes in the store's write operations at the same time.  Each   *)
(* call opens its own connection; a statement is one step, and the commit  *)
(* that follows the only writing statement of a call is part of that step. *)
(***************************************************************************)
Procs == {1, 2}

\* the calls a process makes: upsert_paper_metadata with the default
\* status, or mark_status
ConcCalls(id, time) ==
  {[NoCallInFlight EXCEPT !.op = "upsert", !.pc = "select", !.id = id,
      !.title = m[1], !.categories = m[2], !.status = S_NEW, !.time = time]
     : m \in ApiMetas}
  \cup
  {[NoCallInFlight EXCEPT !.op = "mark", !.pc = "write", !.id = id,
      !.status = st, !.s1 = s1, !.msg = msg, !.time = time]
     : st \in {STAGE1_OK, FAILED}, s1 \in {None, Some(<< >>)},
       msg \in {None, Some("E1")}}

\* both processes enter a write operation on the same id
ConcStart ==
  /\ phase = "idle" /\ dbExists
  /\ conc = NoConc
  /\ \E id \in Ids, t2 \in now .. MaxClock :
       \E c1 \in ConcCalls(id, now), c2 \in ConcCalls(id, t2) :
         conc' = [base |-> table, p |-> <<c1, c2>>]
  /\ UNCHANGED <<storeVars, procVars, histVars, last, ops, given, sources,
                 other, fn>>

\* db.py 83-86: SELECT status FROM papers WHERE arxiv_id = ?
ConcSelect(p) ==
  /\ conc.p[p].pc = "select"
  /\ conc' = [conc EXCEPT !.p[p].row = get_status(table, conc.p[p].id),
                          !.p[p].pc = "write"]
  /\ UNCHANGED <<storeVars, procVars, histVars, last, ops, given, sources,
                 other, fn>>

\* UPDATE papers SET title, categories, updated_at WHERE arxiv_id = ?
UpdateMetadata(t, id, title, categories, time) ==
  {IF r.arxiv_id = id
   THEN [r EXCEPT !.title = title, !.categories = categories,
                  !.updated_at = time]
   ELSE r : r \in t}

\* db.py 87-100 and 113-122: the writing statement of the call and its
\* commit; an INSERT of a key that is in the table raises IntegrityError
ConcWrite(p) ==
  LET c == conc.p[p] IN
  /\ c.pc = "write"
  /\ \/ /\ c.op = "mark"
        /\ table' = mark_status(table, c.id, c.status, c.s1, c.s2, c.msg, c.time)
        /\ conc' = [conc EXCEPT !.p[p].pc = "done"]
     \/ /\ c.op = "upsert" /\ c.row # NoStatus
        /\ table' = UpdateMetadata(table, c.id, c.title, c.categories, c.time)
        /\ conc' = [conc EXCEPT !.p[p].pc = "done"]
     \/ /\ c.op = "upsert" /\ c.row = NoStatus /\ ~HasRow(table, c.id)
        /\ table' = upsert_paper_metadata(table, c.id, c.title, c.categories,
                                          c.status, c.time)
        /\ conc' = [conc EXCEPT !.p[p].pc = "done"]
     \/ /\ c.op = "upsert" /\ c.row = NoStatus /\ HasRow(table, c.id)
        /\ table' = table
        /\ conc' = [conc EXCEPT !.p[p].pc = "done",
                                !.p[p].error = "IntegrityError"]
  /\ UNCHANGED <<dbExists, now, procVars, histVars, last, ops, given, sources,
                 other, fn>>

\* up to MaxMixedOps direct calls that fill the store, then the two
\* concurrent calls
NextConc ==
  \/ conc = NoConc /\ ApiEnsureDb
  \/ conc = NoConc /\ ops < MaxMixedOps /\ (ApiUpsert \/ ApiMarkStatus)
  \/ ConcStart
  \/ \E p \in Procs : ConcSelect(p)
  \/ \E p \in Procs : ConcWrite(p)

SpecConc == Init /\ [][NextConc]_vars

(***************************************************************************)
(* Two sequencer instances on the same store.  The instance that steps is  *)
(* the one whose locals are in the variables; the locals of the other are  *)
(* in other, and Switch exchanges them.                                    *)
(***************************************************************************)
Locals ==
  [phase |-> phase, queue |-> queue, pc |-> pc, paper |-> paper,
   stage1 |-> stage1, full_text |-> full_text, stage2 |-> stage2, err |-> err,
   calls |-> calls, taken |-> taken, skipped |-> skipped]

\* where the scheduler changes instance: between runs, between papers,
\* and between the skip check of line 99 and the upsert of line 103
SwitchPoints == {"idle", "loop", "upsert"}

\* the scheduler runs the other instance
Switch ==
  /\ pc \in SwitchPoints
  /\ other' = Locals
  /\ phase' = other.phase
  /\ queue' = other.queue
  /\ pc' = other.pc
  /\ paper' = other.paper
  /\ stage1' = other.stage1
  /\ full_text' = other.full_text
  /\ stage2' = other.stage2
  /\ err' = other.err
  /\ calls' = other.calls
  /\ taken' = other.taken
  /\ skipped' = other.skipped
  /\ UNCHANGED <<storeVars, fetched, emailOk, killed, last, ops, given,
                 sources, conc, fn>>

\* runs of two instances that fetch MaxRaceQueue papers each, every step
\* taken by either instance
NextRace ==
  \/ StartRun /\ Len(queue') = MaxRaceQueue /\ now' = now
  \/ SkipPaper
  \/ TakePaper
  \/ Upsert
  \/ Stage1Call
  \/ Stage1Repair
  \/ MarkStage1Ok
  \/ MarkSkipped
  \/ MarkRelevant
  \/ Download
  \/ MarkPdfDownloaded
  \/ Extract
  \/ MarkTextExtracted
  \/ Stage2Call
  \/ Stage2Repair
  \/ MarkStage2Ok
  \/ Email
  \/ MarkEmailed
  \/ MarkFailed
  \/ FinishRun
  \/ Switch

SpecRace == Init /\ [][NextRace]_vars

(***************************************************************************)
(* Runs that are never killed.  The sequencer is one thread in one loop:   *)
(* when a step of the run is possible (the call it makes returns or        *)
(* raises), the step is taken.  Nothing obliges a new run to start.        *)
(***************************************************************************)
LoopStep ==
  \/ SkipPaper
  \/ TakePaper
  \/ Upsert
  \/ Stage1Call
  \/ Stage1Repair
  \/ MarkStage1Ok
  \/ MarkSkipped
  \/ MarkRelevant
  \/ Download
  \/ MarkPdfDownloaded
  \/ Extract
  \/ MarkTextExtracted
  \/ Stage2Call
  \/ Stage2Repair
  \/ MarkStage2Ok
  \/ Email
  \/ MarkEmailed
  \/ MarkFailed
  \/ FinishRun

NextLive == StartRun \/ LoopStep

SpecLive == Init /\ [][NextLive]_vars /\ WF_vars(LoopStep)

(***************************************************************************)
(* model_client on its own.  A model output is a sequence of tokens: the   *)
(* two braces, a character of other text, a blank, a newline, the think    *)
(* tags and the markdown fence (three backticks).                          *)
(***************************************************************************)
Tokens == {"{", "}", "t", " ", "\n", "<think>", "</think>", "fence"}

Raws == SeqsUpTo(Tokens, MaxRawLen)

IsSpace(c) == c \in {" ", "\n"}

RECURSIVE LStrip(_)
LStrip(s) == IF s # << >> /\ IsSpace(Head(s)) THEN LStrip(Tail(s)) ELSE s

RECURSIVE RStrip(_)
RStrip(s) ==
  IF s # << >> /\ IsSpace(s[Len(s)]) THEN RStrip(SubSeq(s, 1, Len(s) - 1))
  ELSE s

\* str.strip()
Strip(s) == RStrip(LStrip(s))

\* str.find, counted from 1; 0 when the token is absent
Find(s, c) ==
  IF \E k \in 1 .. Len(s) : s[k] = c
  THEN CHOOSE k \in 1 .. Len(s) : s[k] = c /\ \A l \in 1 .. k - 1 : s[l] # c
  ELSE 0

\* s[n:]
Drop(s, n) == SubSeq(s, n + 1, Len(s))

\* the result of a call: a string, or ValueError
Returned(s) == [ok |-> TRUE, s |-> s]

ValueError == [ok |-> FALSE, s |-> << >>]

\* _strip_think_tags, called on a stripped string: the leading think block
\* up to the first closing tag, or the opening tag alone, is removed
strip_think_tags(s) ==
  LET lower == LStrip(s) IN
  IF lower # << >> /\ Head(lower) = "<think>"
  THEN LET end == Find(s, "</think>") IN
       IF end # 0 THEN LStrip(Drop(s, end)) ELSE LStrip(Drop(s, 1))
  ELSE s

RECURSIVE MatchFrom(_, _, _)
\* the loop of _extract_json_object from position i with the depth so far:
\* the position where the depth returns to 0, or 0
MatchFrom(s, i, depth) ==
  IF i > Len(s) THEN 0
  ELSE IF s[i] = "{" THEN MatchFrom(s, i + 1, depth + 1)
  ELSE IF s[i] = "}"
       THEN IF depth = 1 THEN i ELSE MatchFrom(s, i + 1, depth - 1)
  ELSE MatchFrom(s, i + 1, depth)

extract_json_object(s) ==
  LET start == Find(s, "{") IN
  IF start = 0 THEN ValueError
  ELSE LET i == MatchFrom(s, start, 0) IN
       IF i = 0 THEN ValueError ELSE Returned(SubSeq(s, start, i))

RECURSIVE SplitLines(_)
\* s.split("\n")
SplitLines(s) ==
  LET n == Find(s, "\n") IN
  IF n = 0 THEN <<s>>
  ELSE <<SubSeq(s, 1, n - 1)>> \o SplitLines(Drop(s, n))

RECURSIVE JoinLines(_)
\* "\n".join(lines)
JoinLines(lines) ==
  IF lines = << >> THEN << >>
  ELSE IF Len(lines) = 1 THEN lines[1]
  ELSE lines[1] \o <<"\n">> \o JoinLines(Tail(lines))

\* lines 53-59: the fence line and, if the last line is a fence, that line
\* are removed
Unfence(s) ==
  LET lines == Tail(SplitLines(s))
      kept == IF lines # << >> /\ Strip(lines[Len(lines)]) = <<"fence">>
              THEN SubSeq(lines, 1, Len(lines) - 1) ELSE lines
  IN  Strip(JoinLines(kept))

_normalize_json_raw(raw) ==
  IF Strip(raw) = << >> THEN ValueError
  ELSE LET s1 == Strip(strip_think_tags(Strip(raw))) IN
       IF s1 = << >> THEN ValueError
       ELSE LET s2 == IF Head(s1) = "fence" THEN Unfence(s1) ELSE s1 IN
            IF s2 # << >> /\ Head(s2) = "{" THEN Returned(s2)
            ELSE extract_json_object(s2)

\* what json.loads accepts as an object: text that opens with a brace,
\* closes with the brace that matches it, and has no markup inside
IsJsonObject(s) ==
  /\ s # << >> /\ Head(s) = "{"
  /\ MatchFrom(s, 1, 0) = Len(s)
  /\ \A k \in 1 .. Len(s) : s[k] \in {"{", "}", "t", " ", "\n"}

\* lines 108-118 of parse_stage1_json: normalize, then json.loads
LoadsNormalized(raw) ==
  LET n == _normalize_json_raw(raw) IN
  [norm |-> n, loaded |-> n.ok /\ IsJsonObject(n.s)]

\* one output is normalized and loaded
NormalizeOne ==
  /\ fn = NoFn
  /\ \E raw \in Raws :
       fn' = [f |-> "_normalize_json_raw", in |-> raw,
              out |-> LoadsNormalized(raw)]
  /\ UNCHANGED <<storeVars, procVars, histVars, last, ops, given, sources,
                 conc, other>>

SpecNormalize == Init /\ [][NormalizeOne]_vars

(***************************************************************************)
(* parse_stage1_json on a loaded object, lines 119-143.                    *)
(***************************************************************************)
\* a "relevance" or "overall_relevance" value of a loaded object: a number
\* or numeric text ("num", from below 0.0 to above 1.0), null, a value that
\* float() refuses with TypeError or ValueError ("text"), an integer too
\* large for a float ("big"), or the key is not there
Relevances ==
  [kind : {"num"}, r : -1 .. RelOne + 1]
    \cup [kind : {"null", "text", "big", "missing"}, r : {0}]

\* an entry of "topics" that is not an object
NotAnObject == [kind |-> "notdict", r |-> 0]

\* what json.loads returns when it returns an object: "topics" is a list
\* (Some) or anything else (None)
Stage1Objects ==
  [paper_id : Ids \cup {"missing"},
   topics : {None} \cup
            {Some(q) : q \in SeqsUpTo(Relevances \cup {NotAnObject},
                                      MaxParsedTopics)},
   overall_relevance : Relevances,
   decision : {"keep", "drop", "maybe", "missing"}]

Raised(e) == [ok |-> FALSE, error |-> e]

\* the error of the topic loop at entry i, "" if it passes
TopicError(t) ==
  IF t = NotAnObject THEN "ValueError"
  ELSE IF t.kind = "big" THEN "OverflowError"
  ELSE ""

\* lines 119-143
ParseLoaded(data, paper_id) ==
  IF data.topics = None THEN Raised("ValueError")
  ELSE LET topics == data.topics[1]
           bad == {i \in 1 .. Len(topics) : TopicError(topics[i]) # ""}
       IN  IF bad # {}
           THEN Raised(TopicError(topics[CHOOSE i \in bad :
                                            \A j \in bad : i <= j]))
           ELSE IF data.overall_relevance.kind = "big"
           THEN Raised("OverflowError")
           ELSE [ok |-> TRUE,
                 data |->
                   [paper_id |-> paper_id,
                    topics |-> [i \in 1 .. Len(topics) |->
                                  ClampRelevance(topics[i])],
                    overall_relevance |->
                      ClampRelevance(data.overall_relevance),
                    decision |-> IF data.decision \in {"keep", "drop"}
                                 THEN data.decision ELSE "drop"]]

\* one loaded object is validated
ParseOne ==
  /\ fn = NoFn
  /\ \E data \in Stage1Objects, paper_id \in Ids :
       fn' = [f |-> "parse_stage1_json", in |-> data, paper_id |-> paper_id,
              out |-> ParseLoaded(data, paper_id)]
  /\ UNCHANGED <<storeVars, procVars, histVars, last, ops, given, sources,
                 conc, other>>

SpecParse == Init /\ [][ParseOne]_vars

(***************************************************************************)
(* chat_completion, lines 65-100: the retry loop.  fn holds the locals of  *)
(* the call, the events so far (attempts and sleeps) and the outcome.      *)
(***************************************************************************)
base_delay == 2

RECURSIVE Pow2(_)
Pow2(n) == IF n = 0 THEN 1 ELSE 2 * Pow2(n - 1)

\* what client.chat.completions.create does in one attempt: it returns
\* choices with a content, returns no choices, or raises
CreateOutcomes ==
  [kind : {"content"}, v : {"", "text"}]
    \cup [kind : {"no choices", "APIError"}, v : {""}]

\* the exception the except clause of line 91 catches for an outcome
ErrorOf(attempt, o) ==
  [attempt |-> attempt,
   e |-> IF o.kind = "no choices" THEN "ValueError: Empty completion"
         ELSE o.kind]

Running == [done |-> FALSE]

\* line 98 without its condition
AlwaysSleep(attempt, max_retries) == TRUE

\* line 98
SleepNeeded(attempt, max_retries) == attempt < max_retries - 1

ChatStart ==
  /\ fn = NoFn
  /\ \E max_retries \in 0 .. MaxRetries :
       fn' = [f |-> "chat_completion", max_retries |-> max_retries,
              attempt |-> 0, last_err |-> None, pc |-> "try",
              events |-> << >>, out |-> Running]
  /\ UNCHANGED <<storeVars, procVars, histVars, last, ops, given, sources,
                 conc, other>>

\* lines 79-99: one pass of the loop up to the return or the sleep
ChatAttempt ==
  /\ fn.f = "chat_completion" /\ fn.pc = "try"
  /\ fn.attempt < fn.max_retries
  /\ \E o \in CreateOutcomes :
       LET ev == [ev |-> "attempt", attempt |-> fn.attempt, o |-> o] IN
       IF o.kind = "content"
       THEN fn' = [fn EXCEPT !.events = Append(@, ev), !.pc = "done",
                             !.out = [done |-> TRUE, ok |-> TRUE,
                                      v |-> o.v]]
       ELSE fn' = [fn EXCEPT !.events = Append(@, ev),
                             !.last_err = Some(ErrorOf(fn.attempt, o)),
                             !.pc = IF SleepNeeded(fn.attempt, fn.max_retries)
                                    THEN "sleep" ELSE "try",
                             !.attempt =
                               IF SleepNeeded(fn.attempt, fn.max_retries)
                               THEN @ ELSE @ + 1]
  /\ UNCHANGED <<storeVars, procVars, histVars, last, ops, given, sources,
                 conc, other>>

\* line 99: time.sleep(delay), then the next pass
ChatSleep ==
  /\ fn.f = "chat_completion" /\ fn.pc = "sleep"
  /\ fn' = [fn EXCEPT
              !.events = Append(@, [ev |-> "sleep", attempt |-> fn.attempt,
                                    delay |-> base_delay * Pow2(fn.attempt)]),
              !.attempt = @ + 1, !.pc = "try"]
  /\ UNCHANGED <<storeVars, procVars, histVars, last, ops, given, sources,
                 conc, other>>

\* line 100: the loop is over without a return
ChatRaise ==
  /\ fn.f = "chat_completion" /\ fn.pc = "try"
  /\ fn.attempt >= fn.max_retries
  /\ fn' = [fn EXCEPT
              !.pc = "done",
              !.out = [done |-> TRUE, ok |-> FALSE,
                       v |-> IF fn.last_err # None THEN fn.last_err[1]
                             ELSE [attempt |-> -1,
                                   e |-> "RuntimeError: Model call failed"]]]
  /\ UNCHANGED <<storeVars, procVars, histVars, last, ops, given, sources,
                 conc, other>>

NextChat == ChatStart \/ ChatAttempt \/ ChatSleep \/ ChatRaise

SpecChat == Init /\ [][NextChat]_vars

(***************************************************************************)
(* Properties.                                                             *)
(***************************************************************************)
Status(i) == get_status(table, i)

StatusAfter(i) == get_status(table', i)

Range(q) == {q[k] : k \in 1 .. Len(q)}

\* C1: over any sequence of runs of one sequencer, killed or not, the email
\* collaborator returns success at most once per paper id.
C1_EmailAtMostOnce == \A i \in Ids : emailOk[i] <= 1

\* a run killed after the email was sent and before EMAILED was stored, and
\* a later run that reached the paper again
C1_Witness ==
  \E i \in Ids : emailOk[i] = 1 /\ Status(i) = STAGE2_OK /\ i \in skipped

\* C2: when the loop reaches a paper whose stored status is a processed or
\* an in-flight one, the step invokes no collaborator and leaves the table
\* as it is, the paper is not taken up, and for the rest of the run no step
\* writes the paper's row or invokes a collaborator for it.
C2_SkipTouchesNothing ==
  [][/\ (/\ phase = "running" /\ pc = "loop" /\ queue # << >>
         /\ Len(taken') = Len(taken) + 1
         /\ Status(Head(queue)) \in
              {EMAILED, SKIPPED, STAGE2_OK, S_NEW, STAGE1_OK, STAGE1_RELEVANT,
               PDF_DOWNLOADED, TEXT_EXTRACTED})
        => (table' = table /\ calls' = << >> /\ pc' = "loop" /\ paper' = << >>
            /\ Head(queue) \in skipped')
     /\ \A i \in skipped \cap skipped' :
          /\ RowsOf(table', i) = RowsOf(table, i)
          /\ calls' # calls => paper # << >> /\ arxiv_id # i]_vars

\* a run that ended after it skipped a paper left in flight
C2_Witness ==
  \E i \in skipped :
    phase = "idle" /\ ~killed /\ Status(i) = STAGE1_RELEVANT

\* C3, as claimed: at the end of a crash-free run every paper the run
\* fetched has a terminal status (a paper left in flight by a killed run is
\* resumed and finished), and no paper without a record was skipped.
C3_InFlightPaperIsFinished ==
  /\ (phase = "idle" /\ ~killed) =>
       \A i \in Range(taken) : Status(i) \in {EMAILED, SKIPPED, STAGE2_OK, FAILED}
  /\ \A i \in skipped : HasRow(table, i)

\* the columns upsert_paper_metadata must leave alone
Kept(r) ==
  <<r.status, r.created_at, r.stage1_json, r.stage2_json, r.error_message>>

\* C4: a call of upsert_paper_metadata on an id that has a record leaves the
\* record's status, created_at, stage1_json, stage2_json and error_message
\* as they were, whatever the prior status and the status argument, and
\* leaves every other record alone; on an id without a record it creates
\* the record with the given status.
C4_UpsertKeepsStatus ==
  [][(last'.op = "upsert" /\ ops' = ops + 1) =>
       /\ \A i \in Ids \ {last'.id} : RowsOf(table', i) = RowsOf(table, i)
       /\ Cardinality(RowsOf(table', last'.id)) = 1
       /\ IF HasRow(table, last'.id)
          THEN Kept(FetchOne(table', last'.id)) = Kept(FetchOne(table, last'.id))
          ELSE FetchOne(table', last'.id).status = last'.arg]_vars

\* upsert with status NEW has acted on a record that failed with a message
\* a second earlier: the record is still FAILED, its updated_at moved
C4_Witness ==
  /\ last.op = "upsert" /\ last.arg = S_NEW
  /\ \E r \in RowsOf(table, last.id) :
       /\ r.status = FAILED /\ r.error_message # None
       /\ r.updated_at > r.created_at

\* C5: whatever ensure_db, upsert_paper_metadata, mark_status and pipeline
\* runs have happened, the store holds at most one record per paper id, and
\* no step removes a record: the set of stored ids only grows.
C5_OneRowPerIdNeverRemoved ==
  /\ [](\A i \in Ids : Cardinality(RowsOf(table, i)) <= 1)
  /\ [][StoredIds(table) \subseteq StoredIds(table')]_vars

\* a record a run created and took to EMAILED, then upserted by a direct
\* call: still one row
C5_Witness ==
  /\ last.op = "upsert" /\ ops = MaxMixedOps
  /\ emailOk[last.id] = 1 /\ Status(last.id) = EMAILED
  /\ Cardinality(RowsOf(table, last.id)) = 1

\* C6: no step changes the status of an existing record to NEW.
C6_NewNeverReentered ==
  [][\A i \in Ids :
       (StatusAfter(i) = S_NEW /\ Status(i) # S_NEW) => ~HasRow(table, i)]_vars

\* a failed paper fetched again: the upsert with status NEW has acted and
\* the record is still FAILED
C6_Witness ==
  last.op = "upsert" /\ last.pre = FAILED /\ last.arg = S_NEW
    /\ Status(last.id) = FAILED

\* the place of a status in the stage sequence
Rank(st) ==
  CASE st = S_NEW -> 1
    [] st = STAGE1_OK -> 2
    [] st = STAGE1_RELEVANT -> 3
    [] st = PDF_DOWNLOADED -> 4
    [] st = TEXT_EXTRACTED -> 5
    [] st = STAGE2_OK -> 6
    [] st = EMAILED -> 7
    [] OTHER -> 0

Forward(a, b) == Rank(a) > 0 /\ Rank(b) > Rank(a)

\* C7, as claimed: every change of a record's status moves forward in the
\* stage sequence, or from STAGE1_OK to SKIPPED, or to FAILED.
C7_OnlyForwardOrFailed ==
  [][\A i \in Ids :
       (HasRow(table, i) /\ StatusAfter(i) # Status(i)) =>
         \/ Forward(Status(i), StatusAfter(i))
         \/ Status(i) = STAGE1_OK /\ StatusAfter(i) = SKIPPED
         \/ StatusAfter(i) = FAILED]_vars

\* C7, amended: ... or from FAILED to STAGE1_OK, when a failed paper is
\* processed again by a later run.
C7_ForwardFailedOrRetried ==
  [][\A i \in Ids :
       (HasRow(table, i) /\ StatusAfter(i) # Status(i)) =>
         \/ Forward(Status(i), StatusAfter(i))
         \/ Status(i) = STAGE1_OK /\ StatusAfter(i) = SKIPPED
         \/ StatusAfter(i) = FAILED
         \/ Status(i) = FAILED /\ StatusAfter(i) = STAGE1_OK]_vars

\* a failed paper whose new Stage-1 result has just been stored
C7_Witness == last.op = "mark" /\ last.pre = FAILED /\ last.arg = STAGE1_OK

\* C8, as claimed: FAILED is written only over NEW, STAGE1_OK,
\* STAGE1_RELEVANT, PDF_DOWNLOADED or TEXT_EXTRACTED.
C8_FailedOnlyOverInFlight ==
  (last.op = "mark" /\ last.arg = FAILED) =>
    last.pre \in {S_NEW, STAGE1_OK, STAGE1_RELEVANT, PDF_DOWNLOADED, TEXT_EXTRACTED}

\* C8, amended: FAILED is written only over NEW, STAGE1_OK, STAGE1_RELEVANT,
\* PDF_DOWNLOADED, TEXT_EXTRACTED, STAGE2_OK (the email failed) or FAILED (a
\* failed paper failed again); never over EMAILED or SKIPPED.
C8_FailedNeverOverEmailedOrSkipped ==
  (last.op = "mark" /\ last.arg = FAILED) =>
    last.pre \in {S_NEW, STAGE1_OK, STAGE1_RELEVANT, PDF_DOWNLOADED,
                  TEXT_EXTRACTED, STAGE2_OK, FAILED}

\* the email collaborator raised: FAILED written over STAGE2_OK
C8_Witness == last.op = "mark" /\ last.arg = FAILED /\ last.pre = STAGE2_OK

\* C9: is_in_progress_or_processed returns true exactly when the id has a
\* record whose status is EMAILED, SKIPPED, STAGE2_OK, NEW, STAGE1_OK,
\* STAGE1_RELEVANT, PDF_DOWNLOADED or TEXT_EXTRACTED; false for an id
\* without a record and for a FAILED record.
C9_SkipTestExact ==
  last.op = "is_in_progress_or_processed" =>
    /\ last.ret <=>
         last.pre \in {EMAILED, SKIPPED, STAGE2_OK, S_NEW, STAGE1_OK,
                       STAGE1_RELEVANT, PDF_DOWNLOADED, TEXT_EXTRACTED}
    /\ last.pre \in {NoStatus, FAILED} => ~last.ret

\* the test has answered false for a FAILED record
C9_Witness ==
  /\ last.op = "is_in_progress_or_processed" /\ last.pre = FAILED
  /\ ~last.ret /\ Status(last.id) = FAILED

\* C10: is_processed returns true exactly when the id has a record whose
\* status is EMAILED, SKIPPED or STAGE2_OK; false for every other status
\* and for an id without a record.
C10_IsProcessedExact ==
  last.op = "is_processed" =>
    (last.ret <=> last.pre \in {EMAILED, SKIPPED, STAGE2_OK})

\* the test has answered true for a STAGE2_OK record
C10_Witness ==
  /\ last.op = "is_processed" /\ last.pre = STAGE2_OK /\ last.ret
  /\ Status(last.id) = STAGE2_OK

\* the direct mark_status call a step makes, if it makes one
MarkStep == last'.op = "mark" /\ ops' = ops + 1

\* C11: for an id that has a record, after mark_status(id, S, ...) the
\* stored status is S, each of stage1_json, stage2_json and error_message
\* that was passed holds the passed value, and each one that was omitted
\* keeps the value it had before the call.
C11_MarkSetsStatusKeepsOmitted ==
  [][(MarkStep /\ HasRow(table, last'.id)) =>
       LET old == FetchOne(table, last'.id)
           new == FetchOne(table', last'.id)
       IN /\ Cardinality(RowsOf(table', last'.id)) = 1
          /\ get_status(table', last'.id) = last'.arg
          /\ new.stage1_json =
               IF given'[1] # None THEN given'[1] ELSE old.stage1_json
          /\ new.stage2_json =
               IF given'[2] # None THEN given'[2] ELSE old.stage2_json
          /\ new.error_message =
               IF given'[3] # None THEN given'[3] ELSE old.error_message]_vars

\* STAGE2_OK marked with a summary and no stage1_json, on a record that
\* holds a Stage-1 payload from an earlier call: the payload is still there
C11_Witness ==
  /\ last.op = "mark" /\ last.arg = STAGE2_OK
  /\ given[1] = None /\ given[2] # None
  /\ \E r \in RowsOf(table, last.id) :
       r.status = STAGE2_OK /\ r.stage1_json # None /\ r.stage2_json = given[2]

\* C12, as claimed: a mark_status call with error_message as its only
\* optional argument leaves the record's status, stage1_json and
\* stage2_json as they were.
C12_ErrorOnlyKeepsStatusAndPayloads ==
  [][(MarkStep /\ HasRow(table, last'.id)
        /\ given'[1] = None /\ given'[2] = None /\ given'[3] # None) =>
       LET old == FetchOne(table, last'.id)
           new == FetchOne(table', last'.id)
       IN /\ new.status = old.status
          /\ new.stage1_json = old.stage1_json
          /\ new.stage2_json = old.stage2_json]_vars

\* C12, amended: such a call leaves stage1_json and stage2_json as they
\* were, stores the message, and sets the status to its status argument.
C12_ErrorOnlyKeepsPayloads ==
  [][(MarkStep /\ HasRow(table, last'.id)
        /\ given'[1] = None /\ given'[2] = None /\ given'[3] # None) =>
       LET old == FetchOne(table, last'.id)
           new == FetchOne(table', last'.id)
       IN /\ new.status = last'.arg
          /\ new.error_message = given'[3]
          /\ new.stage1_json = old.stage1_json
          /\ new.stage2_json = old.stage2_json]_vars

\* FAILED marked with a message only, on a record that holds a Stage-1
\* payload: the payload is kept, the status is FAILED
C12_Witness ==
  /\ last.op = "mark" /\ last.arg = FAILED
  /\ given[1] = None /\ given[2] = None /\ given[3] # None
  /\ \E r \in RowsOf(table, last.id) :
       r.status = FAILED /\ r.stage1_json # None /\ r.error_message = given[3]

\* C13: mark_status for an id without a record completes, creates no
\* record for the id and changes no other record.
C13_MarkOnMissingIdChangesNothing ==
  [][(MarkStep /\ ~HasRow(table, last'.id)) =>
       /\ get_status(table', last'.id) = NoStatus
       /\ table' = table]_vars

\* mark_status with a payload has returned for an id without a record,
\* while the other id has one
C13_Witness ==
  /\ last.op = "mark" /\ given[1] # None
  /\ ~HasRow(table, last.id)
  /\ \E i \in Ids \ {last.id} : HasRow(table, i)

\* C14: ensure_db on a store that is already initialized completes and
\* leaves every record as it is, as a direct call and at the start of a
\* run.
C14_EnsureDbIdempotent ==
  [][(dbExists /\ (\/ last'.op = "ensure_db" /\ ops' = ops + 1
                   \/ phase = "idle" /\ phase' = "running")) =>
       dbExists' /\ table' = table]_vars

\* ensure_db called directly on a store that holds an emailed paper
C14_Witness ==
  /\ last.op = "ensure_db" /\ ops = 1
  /\ \E i \in Ids : Status(i) = EMAILED

\* the iteration of the paper reached last is over and the run was not
\* killed since: calls is the whole history of that paper in this run
Done == paper = << >> /\ calls # << >>

\* the paper that history is about
DoneId == taken[Len(taken)]

DoneRow == FetchOne(table, DoneId)

Stage1Models == {"model_s1", "model_s1_repair"}

Stage2Models == {"model_s2", "model_s2_repair"}

\* the calls of a set of collaborators, as positions in calls
CallsOf(names) == {k \in 1 .. Len(calls) : calls[k].c \in names}

C16_AtMostOneRepairPerStage ==
  /\ Cardinality(CallsOf(Stage1Models)) <= 2
  /\ Cardinality(CallsOf(Stage2Models)) <= 2
  /\ \A k \in CallsOf({"model_s1_repair"}) :
       k > 1 /\ calls[k - 1] = [c |-> "model_s1", out |-> "unparsed"]
  /\ \A k \in CallsOf({"model_s2_repair"}) :
       k > 1 /\ calls[k - 1] = [c |-> "model_s2", out |-> "unparsed"]
  /\ \A k \in CallsOf({"model_s2_repair"}) :
       calls[k].out \in {"unparsed", "raised"} =>
         /\ CallsOf({"email"}) = {}
         /\ k = Len(calls)
         /\ paper # << >> => pc = "mark_failed"
         /\ Done => DoneRow.status = FAILED
  /\ (paper # << >> /\ pc \in {"email", "mark_emailed"}) =>
       /\ \E k \in CallsOf(Stage2Models) : calls[k].out = "parsed"
       /\ stage2 # None
       /\ FetchOne(table, arxiv_id).stage2_json = stage2
       /\ FetchOne(table, arxiv_id).status = STAGE2_OK
  /\ (paper # << >> /\ \E k \in CallsOf(Stage2Models) : calls[k].out = "parsed")
       => pc \in {"mark_stage2_ok", "email", "mark_emailed", "mark_failed"}

\* the Stage-2 repair parsed after a first output that did not, and
\* STAGE2_OK is stored with the summary
C16_Witness ==
  /\ paper # << >> /\ pc = "email"
  /\ \E k \in CallsOf({"model_s2_repair"}) : calls[k].out = "parsed"
  /\ FetchOne(table, arxiv_id).status = STAGE2_OK
  /\ FetchOne(table, arxiv_id).stage2_json # None

\* the relevance gate finds the maximum below the threshold
Below(topics) == ~RelevanceRaises(topics) /\ max_relevance(topics) < threshold

C18_GateSkippedOrRelevant ==
  [][(/\ paper # << >> /\ pc' # "idle"
      /\ pc \in {"mark_skipped", "mark_relevant", "mark_failed"}
      /\ Status(arxiv_id) = STAGE1_OK) =>
       StatusAfter(arxiv_id) =
         IF max_relevance(stage1[1]) < threshold THEN SKIPPED
         ELSE STAGE1_RELEVANT]_vars

\* the positions in calls of the reads of an abstract that clears the floor
LongAbstract ==
  {k \in CallsOf({"abstract"}) : FallbackLen(calls[k].len) >= AbstractFloor}

\* C19: when the download fails and the abstract has at least 50
\* characters, the failure does not end the paper: no extraction is called,
\* TEXT_EXTRACTED is written directly over STAGE1_RELEVANT, Stage 2 gets
\* the abstract, the paper fails only if a later call fails, and with
\* Stage 2 and the email succeeding it ends EMAILED; and PDF_DOWNLOADED is
\* stored for the current paper only after a download that succeeded.
C19_DownloadFailureUsesAbstract ==
  /\ \A k \in CallsOf({"download"}) :
       (calls[k].out = "raised" /\ k + 1 \in LongAbstract) =>
         /\ CallsOf({"extract"}) = {}
         /\ paper # << >> =>
              /\ pc \in {"mark_text", "stage2", "stage2_repair",
                          "mark_stage2_ok", "email", "mark_emailed",
                          "mark_failed"}
              /\ Status(arxiv_id) # PDF_DOWNLOADED
              /\ pc = "mark_text" => Status(arxiv_id) = STAGE1_RELEVANT
              /\ pc \in {"stage2", "stage2_repair"} =>
                   /\ Status(arxiv_id) = TEXT_EXTRACTED
                   /\ full_text =
                        Some([src |-> "abstract", len |-> calls[k + 1].len])
              /\ pc = "mark_failed" =>
                   /\ Len(calls) > k + 1
                   /\ calls[Len(calls)].out \in {"raised", "unparsed"}
         /\ Done =>
              /\ DoneRow.status \in {EMAILED, FAILED}
              /\ DoneRow.status = FAILED =>
                   /\ Len(calls) > k + 1
                   /\ calls[Len(calls)].out \in {"raised", "unparsed"}
              /\ calls[Len(calls)] = [c |-> "email", out |-> "ok"] =>
                   DoneRow.status = EMAILED
  /\ (paper # << >> /\ Status(arxiv_id) = PDF_DOWNLOADED) =>
       \E k \in CallsOf({"download"}) : calls[k].out = "ok"

\* a run has ended with its last paper EMAILED after a failed download
C19_Witness ==
  /\ Done /\ phase = "idle" /\ DoneRow.status = EMAILED
  /\ \E k \in CallsOf({"download"}) : calls[k].out = "raised"

\* C20: on every acquisition and extraction path the Stage-2 model is
\* invoked only with PDF text that passed the extraction check or with an
\* abstract of at least 50 characters; when the paper has neither, it is
\* marked FAILED and neither Stage 2 nor the email is invoked.
C20_Stage2OnlyOnUsableText ==
  /\ (paper # << >> /\ (pc = "stage2" \/ CallsOf(Stage2Models) # {})) =>
       /\ full_text # None
       /\ full_text[1].src = "pdf" =>
            /\ full_text[1].len >= TextFloor
            /\ \E k \in CallsOf({"extract"}) : calls[k].out = "ok"
       /\ full_text[1].src = "abstract" =>
            /\ full_text[1].len >= AbstractFloor
            /\ \E k \in LongAbstract : calls[k].len = full_text[1].len
  /\ CallsOf(Stage2Models) # {} =>
       \/ \E k \in CallsOf({"extract"}) : calls[k].out = "ok"
       \/ LongAbstract # {}
  /\ Cardinality(CallsOf({"abstract"})) <= 1
  /\ (CallsOf({"abstract"}) # {} /\ LongAbstract = {}) =>
       /\ CallsOf(Stage2Models \cup {"email"}) = {}
       /\ \A k \in CallsOf({"extract"}) : calls[k].out # "ok"
       /\ paper # << >> => pc = "mark_failed"
       /\ Done => DoneRow.status = FAILED

\* a run has ended with its last paper FAILED: the extracted text did not
\* pass the check and the abstract is one character short of the floor
C20_Witness ==
  /\ Done /\ phase = "idle" /\ DoneRow.status = FAILED
  /\ \E k \in CallsOf({"extract"}) : calls[k].out = "bad"
  /\ \E k \in CallsOf({"abstract"}) : calls[k].len = AbstractFloor - 1

\* C21, as claimed: whatever collaborator or store call raises while a
\* paper is processed, a run that was not killed ends only when the loop
\* has reached every fetched paper, and every paper it took up then has
\* a terminal status: one paper's failure never ends the run.
C21_FailureNeverEndsRun ==
  (phase = "idle" /\ ~killed) =>
    /\ queue = << >>
    /\ \A i \in Range(taken) \ skipped :
         Status(i) \in {EMAILED, SKIPPED, FAILED}

AllSucceeded ==
  /\ \A k \in 1 .. Len(calls) : calls[k].out \in {"parsed", "ok", "bad", "read"}
  /\ CallsOf({"abstract"}) = LongAbstract

AtFailedPaper ==
  /\ phase = "running" /\ pc = "loop" /\ queue # << >>
  /\ Status(Head(queue)) = FAILED

\* C23: a fetched paper whose stored status is FAILED passes the skip
\* check: the loop's step on it is never a skip, it takes the paper up and
\* goes on to the upsert, and the paper taken up is then processed from
\* Stage 1 with its record still FAILED.
C23_FailedPaperIsProcessedAgain ==
  [][(AtFailedPaper /\ Len(taken') = Len(taken) + 1) =>
       /\ pc' = "upsert"
       /\ paper' # << >>
       /\ paper'[1].arxiv_id = Head(queue)
       /\ Head(queue) \notin skipped'
       /\ table' = table]_vars

\* a paper stored as FAILED was taken up again, its upsert left the status
\* FAILED, and the Stage-1 model has answered for it in this run
C23_Witness ==
  /\ paper # << >> /\ pc = "mark_stage1_ok"
  /\ Status(arxiv_id) = FAILED
  /\ calls # << >> /\ calls[Len(calls)] = [c |-> "model_s1", out |-> "parsed"]

\* C24: when the email call raises, the next store write marks the paper
\* FAILED with the email error and leaves stage2_json holding the summary
\* of this run, and the iteration ends with that record; when the email
\* call succeeds the iteration ends with the record EMAILED.
C24_EmailFailureKeepsSummary ==
  /\ (paper # << >> /\ calls # << >>
        /\ calls[Len(calls)] = [c |-> "email", out |-> "raised"]) =>
       /\ pc = "mark_failed"
       /\ err = Some("Email")
       /\ stage2 # None
       /\ Status(arxiv_id) = STAGE2_OK
       /\ FetchOne(table, arxiv_id).stage2_json = stage2
       /\ mark_status(table, arxiv_id, FAILED, None, None, err, now)
            = (table \ {FetchOne(table, arxiv_id)}) \cup
                {[FetchOne(table, arxiv_id) EXCEPT
                    !.status = FAILED, !.error_message = Some("Email"),
                    !.updated_at = now]}
  /\ (Done /\ calls[Len(calls)] = [c |-> "email", out |-> "raised"]) =>
       /\ DoneRow.status = FAILED
       /\ DoneRow.error_message = Some("Email")
       /\ DoneRow.stage2_json \in {Some(k) : k \in 1 .. NumSummaries}
       /\ last = Call("mark", DoneId, STAGE2_OK, FAILED, FALSE)
  /\ (Done /\ calls[Len(calls)] = [c |-> "email", out |-> "ok"]) =>
       /\ DoneRow.status = EMAILED
       /\ DoneRow.stage2_json # None

\* a run has ended with its last paper FAILED on the email error, the
\* summary still in stage2_json
C24_Witness ==
  /\ Done /\ phase = "idle" /\ ~killed
  /\ calls[Len(calls)] = [c |-> "email", out |-> "raised"]
  /\ DoneRow.status = FAILED /\ DoneRow.stage2_json # None

\* C25: when loading the configuration or the topics file raises, the
\* invocation ends before the store is initialized: the database file is
\* not created, no record is created or changed, nothing is fetched, and
\* no model, download or email call is made.
C25_LoadFailureTouchesNothing ==
  [][last'.op \in {"load_config raised", "load_topics raised"} =>
       /\ phase = "idle" /\ phase' = "idle"
       /\ dbExists' = dbExists
       /\ table' = table
       /\ now' = now
       /\ fetched' = fetched /\ queue' = queue /\ paper' = paper
       /\ calls' = << >>
       /\ emailOk' = emailOk]_vars

\* the first invocation failed on the configuration: there is still no
\* database
C25_Witness ==
  /\ last.op = "load_config raised"
  /\ ~dbExists /\ table = {} /\ fetched = 0

SourceRank(src) ==
  CASE src = "arxiv" -> 1 [] src = "scholar" -> 2 [] src = "semantic_scholar" -> 3

\* the position of an id in a list without repetitions, 0 when absent
PositionIn(q, id) ==
  IF \E k \in 1 .. Len(q) : q[k] = id
  THEN CHOOSE k \in 1 .. Len(q) : q[k] = id
  ELSE 0

\* the list of the named source, as the fetch returned it
ListOf(src) ==
  CASE src = "arxiv" -> sources[1].arxiv
    [] src = "scholar" -> sources[1].scholar
    [] src = "semantic_scholar" -> sources[1].ss

\* C26: in a run whose fetch results are known, the papers the loop has
\* reached and those it has still to reach are together the merged list;
\* every id of any source is in it exactly once; each entry comes from the
\* first of arXiv, Google Scholar, Semantic Scholar that returned its id;
\* entries are ordered by source and, within a source, as the source
\* returned them; and the paper being processed is the entry at the
\* position the loop has reached.
C26_EachIdOnceInFetchOrder ==
  sources # << >> =>
    LET papers == sources[1].papers
        all == taken \o queue
    IN  /\ all = IdsOf(papers)
        /\ \A k, l \in 1 .. Len(all) : k # l => all[k] # all[l]
        /\ Range(all) = Range(sources[1].arxiv) \cup Range(sources[1].scholar)
                          \cup Range(sources[1].ss)
        /\ \A k \in 1 .. Len(papers) :
             /\ PositionIn(ListOf(papers[k].from), papers[k].arxiv_id) > 0
             /\ \A src \in {"arxiv", "scholar", "semantic_scholar"} :
                  SourceRank(src) < SourceRank(papers[k].from) =>
                    PositionIn(ListOf(src), papers[k].arxiv_id) = 0
        /\ \A k, l \in 1 .. Len(papers) :
             k < l =>
               \/ SourceRank(papers[k].from) < SourceRank(papers[l].from)
               \/ /\ papers[k].from = papers[l].from
                  /\ PositionIn(ListOf(papers[k].from), papers[k].arxiv_id)
                       < PositionIn(ListOf(papers[l].from), papers[l].arxiv_id)
        /\ paper # << >> => arxiv_id = papers[Len(taken)].arxiv_id

\* the loop has reached both papers of a run in which Google Scholar
\* returned, before a new id, an id that arXiv had returned as well
C26_Witness ==
  /\ sources # << >>
  /\ Len(sources[1].arxiv) = 1
  /\ Len(sources[1].scholar) = 2
  /\ sources[1].scholar[1] = sources[1].arxiv[1]
  /\ Len(taken) = 2 /\ queue = << >>
  /\ taken[1] = sources[1].arxiv[1]

\* the call as one transaction
Serial(c, t) ==
  IF c.op = "upsert"
  THEN upsert_paper_metadata(t, c.id, c.title, c.categories, c.status, c.time)
  ELSE mark_status(t, c.id, c.status, c.s1, c.s2, c.msg, c.time)

BothDone == conc # NoConc /\ \A p \in Procs : conc.p[p].pc = "done"

\* C27, as claimed: when two processes have called write operations of
\* the store on the same id at the same time, both calls have completed
\* without error and the table is what the two calls give when run one
\* after the other in one of the two orders, with at most one record for
\* the id.
C27_ConcurrentWritesSerializable ==
  BothDone =>
    /\ \A p \in Procs : conc.p[p].error = "none"
    /\ \/ table = Serial(conc.p[2], Serial(conc.p[1], conc.base))
       \/ table = Serial(conc.p[1], Serial(conc.p[2], conc.base))
    /\ Cardinality(RowsOf(table, conc.p[1].id)) <= 1

\* the other instance has passed the skip check for a new id and has not
\* yet written its NEW record, and this instance's loop is at the same id
BothAtNewPaper ==
  /\ phase = "running" /\ pc = "loop" /\ queue # << >>
  /\ other.pc = "upsert" /\ other.paper # << >>
  /\ other.paper[1].arxiv_id = Head(queue)
  /\ ~HasRow(table, Head(queue))

\* C28: with two instances on one store, a step that passes the skip check
\* writes nothing; so while one instance is between its skip check and its
\* upsert of a new id, the other instance's step at that id is not a skip
\* but takes the paper as well; and the upsert of whichever instance comes
\* second leaves the status as it is and goes on to Stage 1, so both
\* process the paper.
C28_SkipCheckDoesNotExclude ==
  [][other' = other =>
       /\ (pc = "loop" /\ pc' = "upsert") => table' = table
       /\ (BothAtNewPaper /\ Len(taken') = Len(taken) + 1) =>
            /\ pc' = "upsert"
            /\ paper' # << >> /\ paper'[1].arxiv_id = other.paper[1].arxiv_id
            /\ skipped' = skipped
       /\ (pc = "upsert" /\ pc' # "upsert") =>
            /\ pc' = "stage1"
            /\ HasRow(table, arxiv_id) =>
                 StatusAfter(arxiv_id) = Status(arxiv_id)
            /\ ~HasRow(table, arxiv_id) => StatusAfter(arxiv_id) = S_NEW]_vars

\* both instances took the same id when it had no record, the Stage-1
\* model answered each of them, and each had its email sent: two emails
\* for a paper that never failed
C28_Witness ==
  /\ phase = "idle" /\ other.phase = "idle"
  /\ taken # << >> /\ other.taken = taken
  /\ calls # << >> /\ calls[Len(calls)] = [c |-> "email", out |-> "ok"]
  /\ calls[1].c = "model_s1"
  /\ other.calls # << >>
  /\ other.calls[Len(other.calls)] = [c |-> "email", out |-> "ok"]
  /\ other.calls[1].c = "model_s1"
  /\ emailOk[taken[1]] = 2
  /\ FetchOne(table, taken[1]).error_message = None

\* the calls this step adds to the history of the paper in process
NewCalls == {calls'[k].c : k \in Len(calls) + 1 .. Len(calls')}

\* C29: a collaborator of a later stage is invoked only with the previous
\* stage's completion stored: at a download the record of the paper is
\* STAGE1_RELEVANT, at a text extraction PDF_DOWNLOADED, at a call of the
\* Stage-2 model (first or repair) TEXT_EXTRACTED, and at a call of the
\* email collaborator STAGE2_OK with the summary of this run in
\* stage2_json.
C29_StageCallsFollowStoredStatus ==
  [][(paper # << >> /\ paper' = paper /\ Len(calls') > Len(calls)) =>
       /\ "download" \in NewCalls => Status(arxiv_id) = STAGE1_RELEVANT
       /\ "extract" \in NewCalls => Status(arxiv_id) = PDF_DOWNLOADED
       /\ NewCalls \cap Stage2Models # {} => Status(arxiv_id) = TEXT_EXTRACTED
       /\ "email" \in NewCalls =>
            /\ Status(arxiv_id) = STAGE2_OK
            /\ stage2 # None
            /\ FetchOne(table, arxiv_id).stage2_json = stage2]_vars

\* the email of a paper without a PDF is being sent: the download and the
\* extraction were never called, Stage 2 ran on the abstract
C29_Witness ==
  /\ paper # << >> /\ pc = "mark_emailed"
  /\ Status(arxiv_id) = STAGE2_OK
  /\ CallsOf({"download", "extract"}) = {}
  /\ CallsOf(Stage2Models) # {}

Stage1Done ==
  {STAGE1_OK, STAGE1_RELEVANT, PDF_DOWNLOADED, TEXT_EXTRACTED, STAGE2_OK,
   EMAILED, SKIPPED}

\* C30: in every state, also after a run was killed between any two of
\* its steps, every record with a status from STAGE1_OK onwards (SKIPPED
\* included) has a stored stage1_json, and every record with status
\* STAGE2_OK or EMAILED has a stored stage2_json.
C30_StatusImpliesPayload ==
  \A r \in table :
    /\ r.status \in Stage1Done => r.stage1_json # None
    /\ r.status \in {STAGE2_OK, EMAILED} => r.stage2_json # None

\* a run was killed after it stored STAGE2_OK and before the email: the
\* record has both results
C30_Witness ==
  /\ killed /\ phase = "idle"
  /\ \E r \in table :
       /\ r.status = STAGE2_OK
       /\ r.stage1_json # None /\ r.stage2_json # None

\* C31: no step, whether a direct upsert_paper_metadata or mark_status
\* call with any arguments omitted or a step of a run, turns a stored
\* stage1_json or stage2_json back to null.
C31_PayloadsNeverCleared ==
  [][\A r \in table :
       /\ HasRow(table', r.arxiv_id)
       /\ r.stage1_json # None =>
            FetchOne(table', r.arxiv_id).stage1_json # None
       /\ r.stage2_json # None =>
            FetchOne(table', r.arxiv_id).stage2_json # None]_vars

\* a run stored both results for a paper, and a direct mark_status call
\* that passed neither has been made on its record since
C31_Witness ==
  /\ last.op = "mark" /\ ops = MaxMixedOps
  /\ given[1] = None /\ given[2] = None
  /\ \E r \in RowsOf(table, last.id) :
       /\ r.stage1_json # None /\ r.stage2_json # None
       /\ r.status = last.arg
       /\ emailOk[last.id] = 1

\* C32, as claimed: when the loop of a run reaches a fetched paper that has
\* a record whose status is not EMAILED, SKIPPED or STAGE2_OK, the paper is
\* taken to the upsert, and the upsert stores the fetched title and
\* categories in the record.
C32_UnprocessedRecordGetsFetchedMetadata ==
  [][/\ (/\ phase = "running" /\ pc = "loop" /\ queue # << >>
         /\ Len(taken') = Len(taken) + 1
         /\ HasRow(table, Head(queue))
         /\ Status(Head(queue)) \notin PROCESSED_STATUSES)
        => (pc' = "upsert" /\ Head(queue) \notin skipped')
     /\ (phase = "running" /\ pc = "upsert" /\ pc' = "stage1") =>
          /\ FetchOne(table', arxiv_id).title = paper[1].title
          /\ FetchOne(table', arxiv_id).categories
               = Join(",", paper[1].categories)]_vars

\* the papers this run took up and has finished with FAILED or SKIPPED
EndedFailedOrSkipped ==
  {i \in Range(taken) \ skipped :
     /\ paper # << >> => arxiv_id # i
     /\ Status(i) \in {FAILED, SKIPPED}}

\* C33: the write of FAILED or SKIPPED ends the paper's iteration, and for
\* the rest of the run no step changes the paper's record, sends its
\* email, or adds a collaborator call for it.
C33_NothingAfterFailedOrSkipped ==
  [][(phase = "running" /\ phase' = "running") =>
       /\ (pc \in {"mark_failed", "mark_skipped"} /\ pc' # pc) =>
            /\ pc' = "loop" /\ paper' = << >>
            /\ calls' = calls
            /\ StatusAfter(arxiv_id) \in {FAILED, SKIPPED}
       /\ \A i \in EndedFailedOrSkipped :
            /\ RowsOf(table', i) = RowsOf(table, i)
            /\ emailOk'[i] = emailOk[i]
            /\ paper' # << >> => paper'[1].arxiv_id # i
            /\ i \in EndedFailedOrSkipped']_vars

\* the first paper of a run was written SKIPPED, and the run is now about
\* to store EMAILED for its second paper
C33_Witness ==
  /\ phase = "running" /\ paper # << >> /\ pc = "mark_emailed"
  /\ Len(taken) = 2
  /\ taken[1] \in EndedFailedOrSkipped
  /\ Status(taken[1]) = SKIPPED

BraceFree(s) == \A k \in 1 .. Len(s) : s[k] \notin {"{", "}"}

\* the output is one JSON object between two brace-free texts; the object
\* starts at the first opening brace
WrappedObject(raw) ==
  LET start == Find(raw, "{")
      stop == MatchFrom(raw, start, 0)
  IN  IF start = 0 \/ stop = 0 THEN << >>
      ELSE IF /\ IsJsonObject(SubSeq(raw, start, stop))
              /\ BraceFree(Drop(raw, stop))
           THEN <<SubSeq(raw, start, stop)>>
           ELSE << >>

\* text without reasoning markup and without a code fence
Plain(s) == \A k \in 1 .. Len(s) : s[k] \notin {"<think>", "</think>", "fence"}

Normalized == fn.f = "_normalize_json_raw"

\* C34, as claimed: for an output that is one JSON object with brace-free
\* text before it, after it, or both, normalization returns exactly the
\* object and the load succeeds; an output without an opening brace, or
\* whose first opening brace has no matching closing brace, ends in
\* ValueError (for the unmatched brace: in an output without markup).
C34_NormalizeYieldsTheObject ==
  Normalized =>
    /\ WrappedObject(fn.in) # << >> =>
         /\ fn.out.norm = Returned(WrappedObject(fn.in)[1])
         /\ fn.out.loaded
    /\ (\/ Find(fn.in, "{") = 0
        \/ Plain(fn.in) /\ MatchFrom(fn.in, Find(fn.in, "{"), 0) = 0) =>
         ~fn.out.loaded

Parsed == fn.f = "parse_stage1_json" /\ fn.out.ok

\* the value stored for a relevance v is the one the claim names
ClampedAs(v, w) ==
  CASE v.kind \in {"null", "missing"} -> w = v
    [] v.kind = "text" -> w = [kind |-> "num", r |-> 0]
    [] v.kind = "num" ->
         /\ w.kind = "num" /\ 0 <= w.r /\ w.r <= RelOne
         /\ v.r > RelOne => w.r = RelOne
         /\ v.r < 0 => w.r = 0
         /\ (0 <= v.r /\ v.r <= RelOne) => w.r = v.r
    [] OTHER -> FALSE

\* C35: in every result parse_stage1_json returns, each topic relevance and
\* overall_relevance that is not null lies in [0, 1] (above 1 becomes 1,
\* below 0 becomes 0, non-numeric becomes 0), paper_id is the id passed in,
\* and decision is keep or drop.
C35_ParsedResultIsClamped ==
  Parsed =>
    /\ \A i \in 1 .. Len(fn.out.data.topics) :
         ClampedAs(fn.in.topics[1][i], fn.out.data.topics[i])
    /\ ClampedAs(fn.in.overall_relevance, fn.out.data.overall_relevance)
    /\ fn.out.data.paper_id = fn.paper_id
    /\ fn.out.data.decision \in {"keep", "drop"}

\* a returned result for an object with a relevance above 1 and one below
\* 0, a non-numeric overall_relevance, another paper_id and a decision that
\* is neither keep nor drop
C35_Witness ==
  /\ Parsed
  /\ \E i, j \in 1 .. Len(fn.out.data.topics) :
       /\ fn.in.topics[1][i] = [kind |-> "num", r |-> RelOne + 1]
       /\ fn.in.topics[1][j] = [kind |-> "num", r |-> -1]
       /\ fn.out.data.topics[i].r = RelOne /\ fn.out.data.topics[j].r = 0
  /\ fn.in.overall_relevance.kind = "text"
  /\ fn.in.paper_id \notin {fn.paper_id, "missing"}
  /\ fn.in.decision = "maybe" /\ fn.out.data.decision = "drop"

InChat == fn.f = "chat_completion"

Attempts(events) == {k \in 1 .. Len(events) : events[k].ev = "attempt"}

Succeeded(e) == e.ev = "attempt" /\ e.o.kind = "content"

\* C36: chat_completion makes at most max_retries attempts; it returns the
\* content of the first attempt that succeeds and makes no attempt after
\* it; when all max_retries attempts fail it raises the error of the last
\* one; it sleeps between two attempts and not after the last one.
C36_BoundedRetries ==
  InChat =>
    LET ev == fn.events
        n == Len(ev)
    IN  /\ Cardinality(Attempts(ev)) <= fn.max_retries
        \* attempts and sleeps alternate, starting with an attempt
        /\ \A k \in 1 .. n :
             ev[k].ev = IF k % 2 = 1 THEN "attempt" ELSE "sleep"
        \* nothing follows a success
        /\ \A k \in 1 .. n : Succeeded(ev[k]) => k = n /\ fn.out.done
        /\ fn.out.done =>
             /\ n = 0 \/ ev[n].ev = "attempt"
             /\ fn.out.ok =>
                  n > 0 /\ Succeeded(ev[n]) /\ fn.out.v = ev[n].o.v
             /\ ~fn.out.ok =>
                  /\ Cardinality(Attempts(ev)) = fn.max_retries
                  /\ \A k \in 1 .. n : ~Succeeded(ev[k])
                  /\ n > 0 => fn.out.v = ErrorOf(ev[n].attempt, ev[n].o)
                  /\ n > 0 => ev[n].attempt = fn.max_retries - 1

\* a call with max_retries = 3 whose three attempts failed, the first and
\* the last for different reasons, with two sleeps between them, and which
\* raised the error of the third attempt
C36_Witness ==
  /\ InChat /\ fn.out.done /\ ~fn.out.ok
  /\ fn.max_retries = 3 /\ Len(fn.events) = 5
  /\ fn.events[1].o.kind # fn.events[5].o.kind
  /\ fn.out.v = ErrorOf(2, fn.events[5].o)

TerminalStatuses == {SKIPPED, EMAILED, FAILED}

\* C37: every run that is not killed ends, and at its end every paper that
\* passed the skip check in the run has status SKIPPED, EMAILED or FAILED.
C37_RunEndsWithTerminalStatuses ==
  /\ (phase = "running") ~> (phase = "idle")
  /\ [](phase = "idle" =>
         \A k \in 1 .. Len(taken) : Status(taken[k]) \in TerminalStatuses)

\* the end of a run that took up two papers, one that failed and one that
\* was emailed
C37_Witness ==
  /\ phase = "idle" /\ Len(taken) = 2
  /\ Status(taken[1]) = FAILED /\ Status(taken[2]) = EMAILED

\* the sequencer holds a paper whose stored status is FAILED: a paper that
\* failed in an earlier run and is being processed again
Reprocessing == paper # << >> /\ Status(arxiv_id) = FAILED

\* C38: a FAILED paper that is taken up again starts at the Stage-1 model
\* call with no stored payload in hand; its status stays FAILED (never NEW)
\* until the new Stage-1 result is stored with STAGE1_OK; and the Stage-1
\* and Stage-2 results of the repeated stages replace the stored payloads.
C38_FailedRestartsAtStage1 ==
  [][/\ (pc = "loop" /\ paper' # << >>
          /\ Status(paper'[1].arxiv_id) = FAILED) =>
          /\ pc' = "upsert" /\ calls' = << >>
          /\ stage1' = None /\ full_text' = None /\ stage2' = None
     /\ Reprocessing =>
          /\ \A k \in Len(calls) + 1 .. Len(calls') :
               calls'[k].c = IF k = 1 THEN "model_s1" ELSE "model_s1_repair"
          /\ StatusAfter(arxiv_id) \in {FAILED, STAGE1_OK}
          /\ StatusAfter(arxiv_id) = STAGE1_OK =>
               /\ stage1 # None
               /\ calls # << >> /\ calls[Len(calls)].out = "parsed"
               /\ FetchOne(table', arxiv_id).stage1_json = stage1
     /\ (paper # << >> /\ Status(arxiv_id) # STAGE2_OK
          /\ StatusAfter(arxiv_id) = STAGE2_OK) =>
          /\ stage2 # None
          /\ FetchOne(table', arxiv_id).stage2_json = stage2]_vars

\* a paper that had reached Stage 2 and then failed is processed again: its
\* new Stage-1 result, an irrelevant one, has just replaced the stored one,
\* and the Stage-2 result of the earlier run is still stored
C38_Witness ==
  /\ paper # << >> /\ pc = "mark_skipped"
  /\ last = Call("mark", arxiv_id, FAILED, STAGE1_OK, FALSE)
  /\ \E r \in RowsOf(table, arxiv_id) :
       /\ r.stage1_json = stage1
       /\ r.stage2_json # None
       /\ r.error_message # None

\* the step is the mark_status(FAILED, error_message) of the run on the
\* record r (and not the end of the process just before it)
FailureStoredOn(r) ==
  phase = "running" /\ pc = "mark_failed" /\ paper # << >>
    /\ arxiv_id = r.arxiv_id /\ phase' = "running"

\* C39: a stored error_message is never cleared: every upsert and every
\* mark_status of a run that passes no error_message keeps it, whatever
\* status the record goes on to; a later failure replaces it with its own
\* message.
C39_ErrorMessageKept ==
  [][\A r \in table :
       r.error_message # None =>
         /\ HasRow(table', r.arxiv_id)
         /\ IF FailureStoredOn(r)
            THEN /\ err # None
                 /\ FetchOne(table', r.arxiv_id).error_message = err
                 /\ StatusAfter(r.arxiv_id) = FAILED
            ELSE FetchOne(table', r.arxiv_id).error_message =
                   r.error_message]_vars

\* a paper whose email failed in one run was emailed in a later run: its
\* record is EMAILED and still carries "Email"
C39_Witness ==
  \E r \in table :
    /\ r.status = EMAILED /\ r.error_message = Some("Email")
    /\ emailOk[r.arxiv_id] = 1
    /\ last = Call("mark", r.arxiv_id, STAGE2_OK, EMAILED, FALSE)

\* C40: with one sequencer, a record is EMAILED only if the email
\* collaborator returned success for its id earlier in the run that wrote
\* EMAILED, and a record is SKIPPED only if the run that wrote SKIPPED made
\* no download, extraction, Stage-2 or email call for its id: the write of
\* EMAILED follows the successful email call on the paper in hand, the
\* write of SKIPPED follows Stage-1 calls only, and a paper in hand is
\* never one already stored as SKIPPED or EMAILED.
C40_EmailedAndSkippedAreEarned ==
  /\ [](/\ \A r \in table : r.status = EMAILED => emailOk[r.arxiv_id] >= 1
        /\ paper # << >> => Status(arxiv_id) \notin {SKIPPED, EMAILED})
  /\ [][\A i \in Ids :
          /\ (Status(i) # EMAILED /\ StatusAfter(i) = EMAILED) =>
               /\ paper # << >> /\ arxiv_id = i
               /\ calls # << >>
               /\ calls[Len(calls)] = [c |-> "email", out |-> "ok"]
          /\ (Status(i) # SKIPPED /\ StatusAfter(i) = SKIPPED) =>
               /\ paper # << >> /\ arxiv_id = i
               /\ \A k \in 1 .. Len(calls) :
                    calls[k].c \in {"model_s1", "model_s1_repair"}]_vars

\* the end of a run that emailed one paper and skipped the other
C40_Witness ==
  /\ phase = "idle" /\ ~killed /\ Len(taken) = 2
  /\ Status(taken[1]) = EMAILED /\ emailOk[taken[1]] = 1
  /\ Status(taken[2]) = SKIPPED /\ emailOk[taken[2]] = 0

=============================================================================
